---- MODULE Spec2Model ----
(***************************************************************************)
(* Gossipsub router of protocols/gossipsub/src/layer.rs as a state machine.*)
(*                                                                         *)
(* Representation.                                                         *)
(*  - HashMap<K, V> is a function whose DOMAIN is the key set.             *)
(*  - Vec<PeerId> (mesh[t], fanout[t]) is kept up to permutation as the     *)
(*    number of occurrences of every peer: the code only pushes, tests     *)
(*    membership, retains, removes the first position of a peer, takes     *)
(*    the length, or shuffles and pops, none of which observes the order.  *)
(*    Duplicates are kept, the code does not exclude them.                 *)
(*  - PeerList.gossipsub / PeerList.floodsub and the topic list of a peer  *)
(*    are pushed only under a !contains guard, so they are sets; a missing *)
(*    topic_peers entry and an empty PeerList behave alike and are both    *)
(*    the empty PeerList.                                                  *)
(*  - Iteration over a HashMap / HashSet uses one fixed order (SetToSeq).  *)
(*  - thread_rng choices are nondeterministic.                             *)
(***************************************************************************)
EXTENDS Integers, Sequences, FiniteSets, TLC

Peers == {"p1", "p2", "p3"}
Topics == {"t1", "t2"}
LocalPeer == "local"

\* ---- bounds of the model ----
\* longest mesh[t] Vec an inbound GRAFT may still extend
MaxMesh == 3
\* handlers are injected only while at most MaxEvents events wait for poll
MaxEvents == 0
\* the clock stops at MaxTime
MaxTime == 2
\* Message app events counted per message-id (history counter cap)
MaxDelivered == 2
\* control actions buffered per peer before subscribe / unsubscribe wait for
\* the next heartbeat
MaxPool == 2

VARIABLES
    config,          \* GossipsubConfig
    events,          \* VecDeque<NetworkBehaviourAction>
    control_pool,    \* HashMap<PeerId, Vec<GossipsubControlAction>>
    topic_peers,     \* HashMap<TopicHash, PeerList>
    peer_topics,     \* HashMap<PeerId, (topics, NodeType)>
    mesh,            \* HashMap<TopicHash, Vec<PeerId>>
    fanout,          \* HashMap<TopicHash, Vec<PeerId>>
    fanout_last_pub, \* HashMap<TopicHash, Instant>
    mcache,          \* MessageCache
    received,        \* CuckooFilter of message ids
    now,             \* Instant::now()
    explicit_peers,  \* explicit peer set (not in layer.rs)
    backoff,         \* (peer, topic) -> deadline (not in layer.rs)
    delivered,       \* history: Message app events enqueued per message-id
    put_age,         \* history: cache shifts since the last put of an id
    last_rx,         \* history: source and messages of the RPC handled by the last step
    disc_events,             \* Discv5::events
    kbuckets,                \* Discv5::kbuckets: the nodes with a present entry
    active_queries,          \* Discv5::active_queries
    active_rpc_requests,     \* Discv5::active_rpc_requests
    active_nodes_responses,  \* Discv5::active_nodes_responses
    next_query_id,           \* Discv5::next_query_id
    service,                 \* requests the session service has sent and not yet settled
    find_node_results,       \* history: FindNodeResult events handed out per query
    query_call,              \* history: the last call on the query and what came before it
    topic_map,               \* GlobalTopicQueue::topic_map
    tickets,                 \* GlobalTopicQueue::tickets
    queue_result,            \* history: the last add_to_queue call and what it returned
    timed_sessions,          \* TimedSessions: sessions and the delay queue timeouts
    session_call             \* history: the last call on timed_sessions, the timeouts set

vars == <<config, events, control_pool, topic_peers, peer_topics, mesh, fanout,
          fanout_last_pub, mcache, received, now, explicit_peers, backoff, delivered,
          put_age, last_rx, disc_events, kbuckets, active_queries, active_rpc_requests,
          active_nodes_responses, next_query_id, service, find_node_results,
          query_call, topic_map, tickets, queue_result, timed_sessions, session_call>>

\* the state of the Discv5 behaviour and of the topic queue
discVars == <<disc_events, kbuckets, active_queries, active_rpc_requests,
              active_nodes_responses, next_query_id, service, find_node_results,
              query_call>>

sessionVars == <<timed_sessions, session_call>>

topicVars == <<topic_map, tickets, queue_result, sessionVars>>

\* ---------------------------------------------------------------------
\* containers
\* ---------------------------------------------------------------------
EmptyMap == [x \in {} |-> 0]

\* no call has been made on a query yet
NoQueryCall == [kind |-> "none", stalled |-> FALSE, finished |-> FALSE]

\* no add_to_queue call has been made yet
NoCall == [kind |-> "none"]

MapInsert(m, k, v) == [x \in (DOMAIN m) \cup {k} |-> IF x = k THEN v ELSE m[x]]

MapRemove(m, k) == [x \in (DOMAIN m) \ {k} |-> m[x]]

RECURSIVE SetToSeq(_)
SetToSeq(S) ==
    IF S = {} THEN <<>>
    ELSE LET x == CHOOSE y \in S : TRUE IN <<x>> \o SetToSeq(S \ {x})

RECURSIVE SumOver(_, _)
SumOver(f, S) ==
    IF S = {} THEN 0
    ELSE LET x == CHOOSE y \in S : TRUE IN f[x] + SumOver(f, S \ {x})

\* Vec<PeerId>, up to permutation
EmptyVec == [p \in Peers |-> 0]

VecLen(v) == SumOver(v, Peers)

VecContains(v, p) == v[p] > 0

VecPeers(v) == {p \in Peers : v[p] > 0}

VecPush(v, p) == [v EXCEPT ![p] = @ + 1]

\* peers.retain(|p| p != peer_id)
VecRetainNe(v, p) == [v EXCEPT ![p] = 0]

\* if let Some(pos) = v.iter().position(|p| p == id) { v.remove(pos) }
VecRemoveFirst(v, p) == [v EXCEPT ![p] = IF @ > 0 THEN @ - 1 ELSE 0]

VecFromSet(S) == [p \in Peers |-> IF p \in S THEN 1 ELSE 0]

\* v.append(w)
VecAppend(v, w) == [p \in Peers |-> v[p] + w[p]]

\* every Vec obtained from v by removing k elements (shuffle, then pop k times)
VecPopped(v, k) ==
    {w \in [Peers -> 0..MaxMesh + Cardinality(Peers)] :
        /\ \A p \in Peers : w[p] <= v[p]
        /\ VecLen(w) = VecLen(v) - k}

NewPeerList == [gossipsub |-> {}, floodsub |-> {}]

\* ---------------------------------------------------------------------
\* messages, RPCs, events
\* ---------------------------------------------------------------------
\* width of the sequence number in bytes
SeqnoLen == 8

\* BigEndian::read_u64 over the first n bytes
RECURSIVE ReadBE(_, _)
ReadBE(bytes, n) ==
    IF n = 0 THEN 0 ELSE 256 * ReadBE(bytes, n - 1) + bytes[n]

\* GossipsubMessage::id
id(msg) ==
    LET seqno == IF Len(msg.sequence_number) >= SeqnoLen
                 THEN ReadBE(msg.sequence_number, SeqnoLen)
                 ELSE 0
    IN <<msg.source, seqno>>

Graft(t) == [type |-> "Graft", topic_hash |-> t]

Prune(t) == [type |-> "Prune", topic_hash |-> t]

IHave(t, ids) == [type |-> "IHave", topic_hash |-> t, message_ids |-> ids]

IWant(ids) == [type |-> "IWant", message_ids |-> ids]

Subscription(a, t) == [action |-> a, topic_hash |-> t]

GossipsubRpc(subs, msgs, ctl) ==
    [subscriptions |-> subs, messages |-> msgs, control_msgs |-> ctl]

SendEvent(p, rpc) == [kind |-> "SendEvent", peer_id |-> p, event |-> rpc]

GenerateEvent(e) == [kind |-> "GenerateEvent", event |-> e]

\* ---------------------------------------------------------------------
\* MessageCache (mcache.rs is not part of the sources; modelled after the
\* specification, section 4.6)
\* ---------------------------------------------------------------------
MCacheNew(gossip, history_length) ==
    [msgs |-> EmptyMap, history |-> [i \in 1..history_length |-> {}], gossip |-> gossip]

MCachePut(mc, msg) ==
    IF Len(mc.history) = 0 THEN [mc EXCEPT !.msgs = MapInsert(@, id(msg), msg)]
    ELSE [mc EXCEPT !.msgs = MapInsert(@, id(msg), msg),
                    !.history[1] = @ \cup {[mid |-> id(msg), topics |-> msg.topics]}]

MCacheGet(mc, mid) == IF mid \in DOMAIN mc.msgs THEN {mc.msgs[mid]} ELSE {}

MCacheGossipIds(mc, t) ==
    {e.mid : e \in UNION {mc.history[i] : i \in 1..(IF mc.gossip < Len(mc.history)
                                                     THEN mc.gossip ELSE Len(mc.history))}
             \cap {e \in UNION {mc.history[i] : i \in 1..Len(mc.history)} : t \in e.topics}}

MCacheShift(mc) ==
    IF Len(mc.history) = 0 THEN mc
    ELSE LET last == mc.history[Len(mc.history)]
             kept == UNION {mc.history[i] : i \in 1..(Len(mc.history) - 1)}
             gone == {e.mid : e \in last} \ {e.mid : e \in kept}
         IN [mc EXCEPT !.msgs = [k \in (DOMAIN @) \ gone |-> @[k]],
                       !.history = <<{}>> \o SubSeq(@, 1, Len(@) - 1)]

\* ---------------------------------------------------------------------
\* router state as a value, so that handlers compose
\* ---------------------------------------------------------------------
Cur ==
    [events |-> events, control_pool |-> control_pool, topic_peers |-> topic_peers,
     peer_topics |-> peer_topics, mesh |-> mesh, fanout |-> fanout,
     fanout_last_pub |-> fanout_last_pub, mcache |-> mcache, received |-> received,
     delivered |-> delivered, put_age |-> put_age]

Set(s) ==
    /\ events' = s.events
    /\ control_pool' = s.control_pool
    /\ topic_peers' = s.topic_peers
    /\ peer_topics' = s.peer_topics
    /\ mesh' = s.mesh
    /\ fanout' = s.fanout
    /\ fanout_last_pub' = s.fanout_last_pub
    /\ mcache' = s.mcache
    /\ received' = s.received
    /\ delivered' = s.delivered
    /\ put_age' = s.put_age

PushEvents(s, evs) == [s EXCEPT !.events = @ \o evs]

\* k copies of x
RECURSIVE Repeat(_, _)
Repeat(x, k) == IF k = 0 THEN <<>> ELSE <<x>> \o Repeat(x, k - 1)

control_pool_add(pool, peer, control) ==
    MapInsert(pool, peer, (IF peer \in DOMAIN pool THEN pool[peer] ELSE <<>>) \o <<control>>)

\* for peer in v { control_pool_add(peer, control) }
control_pool_add_all(pool, v, control) ==
    [p \in (DOMAIN pool) \cup VecPeers(v) |->
        (IF p \in DOMAIN pool THEN pool[p] ELSE <<>>) \o Repeat(control, v[p])]

\* the results get_random_peers can return (as sets of peers): the
\* gossipsub peers of the topic that pass the filter, all of them when there
\* are at most n, any n of them otherwise.  excl is the set the filter rejects.
get_random_peers(tp, topic_hash, n, excl) ==
    LET gossip_peers == tp[topic_hash].gossipsub \ excl
    IN IF Cardinality(gossip_peers) <= n THEN {gossip_peers}
       ELSE {S \in SUBSET gossip_peers : Cardinality(S) = n}

Min(a, b) == IF a < b THEN a ELSE b

\* a JOIN that forgets to drop the last-published time of the fanout
join_keeps_last_pub(s, cfg, topic_hash) ==
    IF topic_hash \in DOMAIN s.mesh THEN {s}
    ELSE
      LET hadFanout == topic_hash \in DOMAIN s.fanout
          peers == IF hadFanout THEN s.fanout[topic_hash] ELSE EmptyVec
          add_peers == Min(VecLen(peers), cfg.mesh_n)
      IN UNION {
           LET s1 == IF hadFanout
                     THEN [s EXCEPT !.fanout = MapRemove(@, topic_hash),
                                    !.mesh = MapInsert(@, topic_hash, prefix)]
                     ELSE s
           IN IF VecLen(prefix) < cfg.mesh_n
              THEN { LET added_peers == VecAppend(prefix, VecFromSet(new_peers))
                         old == IF topic_hash \in DOMAIN s1.mesh
                                THEN s1.mesh[topic_hash] ELSE EmptyVec
                     IN [s1 EXCEPT
                           !.mesh = MapInsert(@, topic_hash, VecAppend(old, VecFromSet(new_peers))),
                           !.control_pool = control_pool_add_all(@, added_peers, Graft(topic_hash))]
                     : new_peers \in get_random_peers(s1.topic_peers, topic_hash,
                                                      cfg.mesh_n - VecLen(prefix), {}) }
              ELSE { [s1 EXCEPT !.control_pool =
                                    control_pool_add_all(@, prefix, Graft(topic_hash))] }
           : prefix \in VecPopped(peers, VecLen(peers) - add_peers) }

\* JOIN(topic): the states join can leave behind
join(s, cfg, topic_hash) ==
    IF topic_hash \in DOMAIN s.mesh THEN {s}
    ELSE
      LET hadFanout == topic_hash \in DOMAIN s.fanout
          peers == IF hadFanout THEN s.fanout[topic_hash] ELSE EmptyVec
          add_peers == Min(VecLen(peers), cfg.mesh_n)
      IN UNION {
           LET s1 == IF hadFanout
                     THEN [s EXCEPT !.fanout = MapRemove(@, topic_hash),
                                    !.mesh = MapInsert(@, topic_hash, prefix),
                                    !.fanout_last_pub = MapRemove(@, topic_hash)]
                     ELSE s
           IN IF VecLen(prefix) < cfg.mesh_n
              THEN { LET added_peers == VecAppend(prefix, VecFromSet(new_peers))
                         old == IF topic_hash \in DOMAIN s1.mesh
                                THEN s1.mesh[topic_hash] ELSE EmptyVec
                     IN [s1 EXCEPT
                           !.mesh = MapInsert(@, topic_hash, VecAppend(old, VecFromSet(new_peers))),
                           !.control_pool = control_pool_add_all(@, added_peers, Graft(topic_hash))]
                     : new_peers \in get_random_peers(s1.topic_peers, topic_hash,
                                                      cfg.mesh_n - VecLen(prefix), {}) }
              ELSE { [s1 EXCEPT !.control_pool =
                                    control_pool_add_all(@, prefix, Graft(topic_hash))] }
           : prefix \in VecPopped(peers, VecLen(peers) - add_peers) }

\* LEAVE(topic)
leave(s, topic_hash) ==
    IF topic_hash \in DOMAIN s.mesh
    THEN [s EXCEPT !.mesh = MapRemove(@, topic_hash),
                   !.control_pool = control_pool_add_all(@, s.mesh[topic_hash], Prune(topic_hash))]
    ELSE s

\* the SendEvents of subscribe / unsubscribe: one per floodsub and gossipsub
\* peer of the topic
SubscriptionEvents(s, topic_hash, action) ==
    LET peer_list == s.topic_peers[topic_hash]
        one(p) == SendEvent(p, GossipsubRpc(<<Subscription(action, topic_hash)>>, <<>>, <<>>))
        fl == SetToSeq(peer_list.floodsub)
        gs == SetToSeq(peer_list.gossipsub)
    IN [i \in 1..Len(fl) |-> one(fl[i])] \o [i \in 1..Len(gs) |-> one(gs[i])]

\* ---------------------------------------------------------------------
\* ingress handlers
\* ---------------------------------------------------------------------
\* usize subtraction of a release build (wraps)
USub(a, b) == IF a >= b THEN a - b ELSE a - b + 65536

\* an Unsubscribe entry that leaves the peer's own topic list alone
ApplySubscriptionKeepsTopic(s, subscription, source) ==
    LET t == subscription.topic_hash
        peer_list == s.topic_peers[t]
    IN IF subscription.action = "Subscribe"
       THEN [s EXCEPT
               !.topic_peers[t] = [peer_list EXCEPT !.gossipsub = @ \cup {source}],
               !.peer_topics[source].topics = @ \cup {t},
               !.events = Append(@, GenerateEvent(
                   [type |-> "Subscribed", peer_id |-> source, topic |-> t]))]
       ELSE [s EXCEPT
               !.topic_peers[t] = [peer_list EXCEPT !.gossipsub = @ \ {source}],
               !.events = Append(@, GenerateEvent(
                   [type |-> "Unsubscribed", peer_id |-> source, topic |-> t]))]

\* one entry of handle_received_subscriptions, for a connected source
ApplySubscription(s, subscription, source) ==
    LET t == subscription.topic_hash
        node_type == s.peer_topics[source].node_type
        peer_list == s.topic_peers[t]
    IN IF subscription.action = "Subscribe"
       THEN [s EXCEPT
               !.topic_peers[t] =
                   IF node_type = "Floodsub"
                   THEN [peer_list EXCEPT !.floodsub = @ \cup {source}]
                   ELSE [peer_list EXCEPT !.gossipsub = @ \cup {source}],
               !.peer_topics[source].topics = @ \cup {t},
               !.events = Append(@, GenerateEvent(
                   [type |-> "Subscribed", peer_id |-> source, topic |-> t]))]
       ELSE [s EXCEPT
               !.topic_peers[t] =
                   IF node_type = "Floodsub"
                   THEN [peer_list EXCEPT !.floodsub = @ \ {source}]
                   ELSE [peer_list EXCEPT !.gossipsub = @ \ {source}],
               !.peer_topics[source].topics = @ \ {t},
               !.events = Append(@, GenerateEvent(
                   [type |-> "Unsubscribed", peer_id |-> source, topic |-> t]))]

RECURSIVE ApplySubscriptions(_, _, _)
ApplySubscriptions(s, subscriptions, source) ==
    IF subscriptions = <<>> THEN s
    ELSE ApplySubscriptions(ApplySubscription(s, Head(subscriptions), source),
                            Tail(subscriptions), source)

\* a handler that takes an unknown source for a new gossipsub peer
handle_received_subscriptions_any(s, subscriptions, propagation_source) ==
    IF propagation_source \notin DOMAIN s.peer_topics
    THEN ApplySubscriptions(
            [s EXCEPT !.peer_topics =
                MapInsert(@, propagation_source, [topics |-> {}, node_type |-> "Gossipsub"])],
            subscriptions, propagation_source)
    ELSE ApplySubscriptions(s, subscriptions, propagation_source)

handle_received_subscriptions(s, subscriptions, propagation_source) ==
    IF propagation_source \notin DOMAIN s.peer_topics THEN s
    ELSE ApplySubscriptions(s, subscriptions, propagation_source)

\* forward_msg without the source check
ForwardRecipientsEcho(s, message, source) ==
    UNION { s.topic_peers[t].floodsub
            \cup (IF t \in DOMAIN s.mesh THEN VecPeers(s.mesh[t]) ELSE {})
          : t \in message.topics }

\* the peers forward_msg sends to: floodsub peers and mesh peers of the
\* message's topics, except the source
ForwardRecipients(s, message, source) ==
    UNION { (s.topic_peers[t].floodsub \ {source})
            \cup (IF t \in DOMAIN s.mesh THEN VecPeers(s.mesh[t]) \ {source} ELSE {})
          : t \in message.topics }

MessageEvents(recipients, message) ==
    LET r == SetToSeq(recipients)
    IN [i \in 1..Len(r) |-> SendEvent(r[i], GossipsubRpc(<<>>, <<message>>, <<>>))]

forward_msg(s, message, source) ==
    PushEvents(s, MessageEvents(ForwardRecipients(s, message, source), message))

\* a filter that is not consulted
test_and_add_forgets(rcv, mid, false_positive) == ~false_positive

\* received.test_and_add(id): TRUE when the id was not yet in the filter.
\* false_positive: the filter reports an id it never saw (and from then on
\* keeps reporting it).
test_and_add(rcv, mid, false_positive) == ~(mid \in rcv \/ false_positive)

Cap(n, max) == IF n > max THEN max ELSE n

handle_received_message(s, msg, propagation_source, false_positive) ==
    IF ~test_and_add(s.received, id(msg), false_positive)
    THEN [s EXCEPT !.received = @ \cup {id(msg)}]
    ELSE
      LET s1 == [s EXCEPT !.received = @ \cup {id(msg)},
                          !.mcache = MCachePut(@, msg),
                          !.put_age[id(msg)] = 0]
          s2 == IF \E t \in DOMAIN s1.mesh : t \in msg.topics
                THEN [s1 EXCEPT
                        !.events = Append(@, GenerateEvent([type |-> "Message", msg |-> msg])),
                        !.delivered[id(msg)] = Cap(@ + 1, MaxDelivered)]
                ELSE s1
      IN forward_msg(s2, msg, propagation_source)

\* ihave_msgs: sequence of <<topic, set of ids>>.  An entry for a topic that
\* is not subscribed returns from the whole handler.
RECURSIVE IHaveWanted(_, _, _)
IHaveWanted(s, ihave_msgs, iwant_ids) ==
    IF ihave_msgs = <<>> THEN [returned |-> FALSE, ids |-> iwant_ids]
    ELSE LET topic == Head(ihave_msgs)[1]
             ids == Head(ihave_msgs)[2]
         IN IF topic \notin DOMAIN s.mesh THEN [returned |-> TRUE, ids |-> {}]
            ELSE IHaveWanted(s, Tail(ihave_msgs), iwant_ids \cup (ids \ s.received))

handle_ihave(s, peer_id, ihave_msgs) ==
    LET r == IHaveWanted(s, ihave_msgs, {})
    IN IF r.returned \/ r.ids = {} THEN s
       ELSE [s EXCEPT !.control_pool = control_pool_add(@, peer_id, IWant(r.ids))]

\* an IWANT handler that answers only when it holds every requested id
handle_iwant_all(s, peer_id, iwant_msgs) ==
    LET cached_messages == UNION {MCacheGet(s.mcache, i) : i \in iwant_msgs}
    IN IF \E i \in iwant_msgs : MCacheGet(s.mcache, i) = {} THEN s
       ELSE PushEvents(s, <<SendEvent(peer_id,
                GossipsubRpc(<<>>, SetToSeq(cached_messages), <<>>))>>)

\* iwant_msgs: set of requested ids
handle_iwant(s, peer_id, iwant_msgs) ==
    LET cached_messages == UNION {MCacheGet(s.mcache, i) : i \in iwant_msgs}
    IN IF cached_messages = {} THEN s
       ELSE PushEvents(s, <<SendEvent(peer_id,
                GossipsubRpc(<<>>, SetToSeq(cached_messages), <<>>))>>)

\* the mesh after the GRAFT loop over topics (a sequence)
RECURSIVE GraftMesh(_, _, _)
GraftMesh(m, peer_id, topics) ==
    IF topics = <<>> THEN m
    ELSE LET t == Head(topics)
         IN GraftMesh(IF t \in DOMAIN m THEN [m EXCEPT ![t] = VecPush(@, peer_id)] ELSE m,
                      peer_id, Tail(topics))

SeqRange(q) == {q[i] : i \in 1..Len(q)}

\* a GRAFT handler that gives up the mesh links when a named topic is not
\* subscribed
handle_graft_all_or_none(s, peer_id, topics) ==
    LET to_prune_topics == SeqRange(topics) \ DOMAIN s.mesh
        tp == SetToSeq(to_prune_topics)
        prune_messages == [i \in 1..Len(tp) |-> Prune(tp[i])]
    IN IF to_prune_topics # {}
       THEN PushEvents(s, <<SendEvent(peer_id, GossipsubRpc(<<>>, <<>>, prune_messages))>>)
       ELSE [s EXCEPT !.mesh = GraftMesh(@, peer_id, topics)]

handle_graft(s, peer_id, topics) ==
    LET to_prune_topics == SeqRange(topics) \ DOMAIN s.mesh
        tp == SetToSeq(to_prune_topics)
        prune_messages == [i \in 1..Len(tp) |-> Prune(tp[i])]
        s1 == [s EXCEPT !.mesh = GraftMesh(@, peer_id, topics)]
    IN IF to_prune_topics # {}
       THEN PushEvents(s1, <<SendEvent(peer_id, GossipsubRpc(<<>>, <<>>, prune_messages))>>)
       ELSE s1

\* a PRUNE handler that takes the peer out of the mesh of every topic
handle_prune_everywhere(s, peer_id, topics) ==
    [s EXCEPT !.mesh = [t \in DOMAIN @ |->
                          IF topics # <<>> THEN VecRetainNe(@[t], peer_id) ELSE @[t]]]

handle_prune(s, peer_id, topics) ==
    [s EXCEPT !.mesh = [t \in DOMAIN @ |->
                          IF t \in SeqRange(topics) THEN VecRetainNe(@[t], peer_id) ELSE @[t]]]

RECURSIVE HandleMessages(_, _, _, _, _)
HandleMessages(s, messages, i, propagation_source, fps) ==
    IF i > Len(messages) THEN s
    ELSE HandleMessages(
            handle_received_message(s, messages[i], propagation_source, i \in fps),
            messages, i + 1, propagation_source, fps)

\* the IWANT entries of an RPC are answered while scanning the control list
RECURSIVE HandleIWants(_, _, _)
HandleIWants(s, control_msgs, propagation_source) ==
    IF control_msgs = <<>> THEN s
    ELSE LET c == Head(control_msgs)
         IN HandleIWants(IF c.type = "IWant"
                         THEN handle_iwant(s, propagation_source, c.message_ids) ELSE s,
                         Tail(control_msgs), propagation_source)

SelectType(control_msgs, type) == SelectSeq(control_msgs, LAMBDA c : c.type = type)

\* an RPC handler that applies the control actions before the messages
inject_node_event_control_first(s, propagation_source, event, fps) ==
    LET s1 == handle_received_subscriptions(s, event.subscriptions, propagation_source)
        s2 == HandleIWants(s1, event.control_msgs, propagation_source)
        ih == SelectType(event.control_msgs, "IHave")
        ihave_msgs == [i \in 1..Len(ih) |-> <<ih[i].topic_hash, ih[i].message_ids>>]
        gr == SelectType(event.control_msgs, "Graft")
        graft_msgs == [i \in 1..Len(gr) |-> gr[i].topic_hash]
        pr == SelectType(event.control_msgs, "Prune")
        prune_msgs == [i \in 1..Len(pr) |-> pr[i].topic_hash]
        s3 == IF ihave_msgs # <<>> THEN handle_ihave(s2, propagation_source, ihave_msgs) ELSE s2
        s4 == IF graft_msgs # <<>> THEN handle_graft(s3, propagation_source, graft_msgs) ELSE s3
        s5 == IF prune_msgs # <<>> THEN handle_prune(s4, propagation_source, prune_msgs) ELSE s4
    IN HandleMessages(s5, event.messages, 1, propagation_source, fps)

\* inject_node_event(source, InnerMessage::Rx(event)); fps: the positions of
\* the messages the seen-filter reports by false positive
inject_node_event(s, propagation_source, event, fps) ==
    LET s1 == handle_received_subscriptions(s, event.subscriptions, propagation_source)
        s2 == HandleMessages(s1, event.messages, 1, propagation_source, fps)
        s3 == HandleIWants(s2, event.control_msgs, propagation_source)
        ih == SelectType(event.control_msgs, "IHave")
        ihave_msgs == [i \in 1..Len(ih) |-> <<ih[i].topic_hash, ih[i].message_ids>>]
        gr == SelectType(event.control_msgs, "Graft")
        graft_msgs == [i \in 1..Len(gr) |-> gr[i].topic_hash]
        pr == SelectType(event.control_msgs, "Prune")
        prune_msgs == [i \in 1..Len(pr) |-> pr[i].topic_hash]
        s4 == IF ihave_msgs # <<>> THEN handle_ihave(s3, propagation_source, ihave_msgs) ELSE s3
        s5 == IF graft_msgs # <<>> THEN handle_graft(s4, propagation_source, graft_msgs) ELSE s4
    IN IF prune_msgs # <<>> THEN handle_prune(s5, propagation_source, prune_msgs) ELSE s5

\* ---------------------------------------------------------------------
\* publish
\* ---------------------------------------------------------------------
\* the fanout part of a publish that builds a fanout for subscribed topics
\* too
RECURSIVE PublishFanoutSubscribed(_, _, _, _, _)
PublishFanoutSubscribed(s, cfg, time, topics, recipient_peers) ==
    IF topics = <<>> THEN {[s |-> s, recipient_peers |-> recipient_peers]}
    ELSE
      LET topic_hash == Head(topics)
      IN IF topic_hash \in DOMAIN s.fanout
         THEN PublishFanoutSubscribed(
                [s EXCEPT !.fanout_last_pub = MapInsert(@, topic_hash, time)],
                cfg, time, Tail(topics),
                recipient_peers \cup VecPeers(s.fanout[topic_hash]))
         ELSE UNION {
                PublishFanoutSubscribed(
                  [s EXCEPT !.fanout = MapInsert(@, topic_hash, VecFromSet(new_peers)),
                            !.fanout_last_pub = MapInsert(@, topic_hash, time)],
                  cfg, time, Tail(topics), recipient_peers \cup new_peers)
                : new_peers \in get_random_peers(s.topic_peers, topic_hash, cfg.mesh_n, {}) }

\* the fanout part of publish_many that leaves fanout_last_pub of an existing
\* fanout alone
RECURSIVE PublishFanoutStale(_, _, _, _, _)
PublishFanoutStale(s, cfg, time, topics, recipient_peers) ==
    IF topics = <<>> THEN {[s |-> s, recipient_peers |-> recipient_peers]}
    ELSE
      LET topic_hash == Head(topics)
      IN IF topic_hash \in DOMAIN s.mesh
         THEN PublishFanoutStale(s, cfg, time, Tail(topics), recipient_peers)
         ELSE IF topic_hash \in DOMAIN s.fanout
         THEN PublishFanoutStale(s, cfg, time, Tail(topics),
                                 recipient_peers \cup VecPeers(s.fanout[topic_hash]))
         ELSE UNION {
                PublishFanoutStale(
                  [s EXCEPT !.fanout = MapInsert(@, topic_hash, VecFromSet(new_peers)),
                            !.fanout_last_pub = MapInsert(@, topic_hash, time)],
                  cfg, time, Tail(topics), recipient_peers \cup new_peers)
                : new_peers \in get_random_peers(s.topic_peers, topic_hash, cfg.mesh_n, {}) }

\* the fanout part of publish_many over the topics still to visit: the
\* possible pairs of state and recipient set
RECURSIVE PublishFanout(_, _, _, _, _)
PublishFanout(s, cfg, time, topics, recipient_peers) ==
    IF topics = <<>> THEN {[s |-> s, recipient_peers |-> recipient_peers]}
    ELSE
      LET topic_hash == Head(topics)
      IN IF topic_hash \in DOMAIN s.mesh
         THEN PublishFanout(s, cfg, time, Tail(topics), recipient_peers)
         ELSE IF topic_hash \in DOMAIN s.fanout
         THEN PublishFanout(
                [s EXCEPT !.fanout_last_pub = MapInsert(@, topic_hash, time)],
                cfg, time, Tail(topics),
                recipient_peers \cup VecPeers(s.fanout[topic_hash]))
         ELSE UNION {
                PublishFanout(
                  [s EXCEPT !.fanout = MapInsert(@, topic_hash, VecFromSet(new_peers)),
                            !.fanout_last_pub = MapInsert(@, topic_hash, time)],
                  cfg, time, Tail(topics), recipient_peers \cup new_peers)
                : new_peers \in get_random_peers(s.topic_peers, topic_hash, cfg.mesh_n, {}) }

\* a publish that does not record the message id as received
publish_many_unrecorded(s, cfg, time, topics, sequence_number) ==
    LET message == [source |-> LocalPeer, sequence_number |-> sequence_number,
                    topics |-> topics]
        s1 == forward_msg(s, message, LocalPeer)
    IN { LET s2 == [r.s EXCEPT !.mcache = MCachePut(@, message),
                               !.put_age[id(message)] = 0]
         IN PushEvents(s2, MessageEvents(r.recipient_peers, message))
         : r \in PublishFanout(s1, cfg, time, SetToSeq(topics), {}) }

\* publish_many(topic, data) with the random sequence number drawn
publish_many(s, cfg, time, topics, sequence_number) ==
    LET message == [source |-> LocalPeer, sequence_number |-> sequence_number,
                    topics |-> topics]
        s1 == forward_msg(s, message, LocalPeer)
    IN { LET s2 == [r.s EXCEPT !.mcache = MCachePut(@, message),
                               !.received = @ \cup {id(message)},
                               !.put_age[id(message)] = 0]
         IN PushEvents(s2, MessageEvents(r.recipient_peers, message))
         : r \in PublishFanout(s1, cfg, time, SetToSeq(topics), {}) }

\* ---------------------------------------------------------------------
\* heartbeat
\* ---------------------------------------------------------------------
\* gossip that may also pick the peers of the mesh
emit_gossip_any(s, cfg, topic_hash, peers) ==
    LET message_ids == MCacheGossipIds(s.mcache, topic_hash)
    IN IF message_ids = {} THEN {s}
       ELSE { [s EXCEPT !.control_pool =
                  control_pool_add_all(@, VecFromSet(to_msg_peers),
                                       IHave(topic_hash, message_ids))]
              : to_msg_peers \in get_random_peers(s.topic_peers, topic_hash,
                                                  cfg.gossip_lazy, {}) }

\* emit_gossip(topic, peers): the control pools it can leave behind
emit_gossip(s, cfg, topic_hash, peers) ==
    LET message_ids == MCacheGossipIds(s.mcache, topic_hash)
    IN IF message_ids = {} THEN {s}
       ELSE { [s EXCEPT !.control_pool =
                  control_pool_add_all(@, VecFromSet(to_msg_peers),
                                       IHave(topic_hash, message_ids))]
              : to_msg_peers \in get_random_peers(s.topic_peers, topic_hash,
                                                  cfg.gossip_lazy, VecPeers(peers)) }

\* to_graft / to_prune: peer -> sequence of topics
PushTopic(m, peers, topic_hash) ==
    [p \in (DOMAIN m) \cup VecPeers(peers) |->
        (IF p \in DOMAIN m THEN m[p] ELSE <<>>) \o Repeat(topic_hash, peers[p])]

VecMinus(v, w) == [p \in Peers |-> v[p] - w[p]]

\* asks for mesh_n more peers whatever the mesh already holds
desired_peers_full(cfg, peers) == cfg.mesh_n

\* desired_peers = mesh_n - peers.len()
desired_peers(cfg, peers) == USub(cfg.mesh_n, VecLen(peers))

\* mesh maintenance of one topic; h = [s, to_graft, to_prune]
MeshTopicStep(h, cfg, topic_hash) ==
    LET peers0 == h.s.mesh[topic_hash]
        low == VecLen(peers0) < cfg.mesh_n_low
        grafts == IF low
                  THEN get_random_peers(h.s.topic_peers, topic_hash,
                                        desired_peers(cfg, peers0), VecPeers(peers0))
                  ELSE {{}}
    IN UNION { LET peers1 == VecAppend(peers0, VecFromSet(peer_list))
                   high == VecLen(peers1) > cfg.mesh_n_high
                   kept == IF high
                           THEN VecPopped(peers1, USub(VecLen(peers1), cfg.mesh_n))
                           ELSE {peers1}
               IN UNION { { [s |-> g,
                             to_graft |-> PushTopic(h.to_graft, VecFromSet(peer_list), topic_hash),
                             to_prune |-> PushTopic(h.to_prune, VecMinus(peers1, peers2), topic_hash)]
                            : g \in emit_gossip(
                                  [h.s EXCEPT !.mesh = IF low \/ high
                                                       THEN MapInsert(@, topic_hash, peers2)
                                                       ELSE @],
                                  cfg, topic_hash, peers2) }
                          : peers2 \in kept }
             : peer_list \in grafts }

\* the usize subtractions <<a, b>> (a - b) the mesh maintenance of one topic
\* performs: mesh_n - peers.len() when the mesh is low, peers.len() - mesh_n
\* when it is high
MeshSubtractions(s, cfg, topic_hash) ==
    LET peers0 == s.mesh[topic_hash]
        low == VecLen(peers0) < cfg.mesh_n_low
        grafts == IF low
                  THEN get_random_peers(s.topic_peers, topic_hash,
                                        desired_peers(cfg, peers0), VecPeers(peers0))
                  ELSE {{}}
    IN (IF low THEN {<<cfg.mesh_n, VecLen(peers0)>>} ELSE {})
       \cup { <<VecLen(VecAppend(peers0, VecFromSet(peer_list))), cfg.mesh_n>> :
                peer_list \in {g \in grafts :
                    VecLen(VecAppend(peers0, VecFromSet(g))) > cfg.mesh_n_high} }

RECURSIVE MeshMaintenance(_, _, _)
MeshMaintenance(H, cfg, topics) ==
    IF topics = <<>> THEN H
    ELSE MeshMaintenance(UNION {MeshTopicStep(h, cfg, Head(topics)) : h \in H},
                         cfg, Tail(topics))

\* expiry that already drops a fanout at the end of its fanout_ttl
FanoutExpireEarly(s, cfg, time) ==
    LET expired == {t \in DOMAIN s.fanout_last_pub :
                        s.fanout_last_pub[t] + cfg.fanout_ttl <= time}
    IN [s EXCEPT !.fanout_last_pub = [t \in (DOMAIN @) \ expired |-> @[t]],
                 !.fanout = [t \in (DOMAIN @) \ expired |-> @[t]]]

\* remove expired fanout topics
FanoutExpire(s, cfg, time) ==
    LET expired == {t \in DOMAIN s.fanout_last_pub :
                        s.fanout_last_pub[t] + cfg.fanout_ttl < time}
    IN [s EXCEPT !.fanout_last_pub = [t \in (DOMAIN @) \ expired |-> @[t]],
                 !.fanout = [t \in (DOMAIN @) \ expired |-> @[t]]]

\* fanout maintenance of one topic
FanoutTopicStep(s, cfg, topic_hash) ==
    LET peers0 == s.fanout[topic_hash]
        peers1 == [p \in Peers |->
                     IF /\ p \in DOMAIN s.peer_topics
                        /\ topic_hash \in s.peer_topics[p].topics
                     THEN peers0[p] ELSE 0]
        adds == IF VecLen(peers1) < cfg.mesh_n
                THEN get_random_peers(s.topic_peers, topic_hash,
                                      cfg.mesh_n - VecLen(peers1), VecPeers(peers1))
                ELSE {{}}
    IN UNION { LET peers2 == VecAppend(peers1, VecFromSet(new_peers))
               IN emit_gossip([s EXCEPT !.fanout = MapInsert(@, topic_hash, peers2)],
                              cfg, topic_hash, peers2)
             : new_peers \in adds }

RECURSIVE FanoutMaintenance(_, _, _)
FanoutMaintenance(S, cfg, topics) ==
    IF topics = <<>> THEN S
    ELSE FanoutMaintenance(UNION {FanoutTopicStep(s, cfg, Head(topics)) : s \in S},
                           cfg, Tail(topics))

GraftsOf(m, p) ==
    IF p \in DOMAIN m THEN [i \in 1..Len(m[p]) |-> Graft(m[p][i])] ELSE <<>>

PrunesOf(m, p) ==
    IF p \in DOMAIN m THEN [i \in 1..Len(m[p]) |-> Prune(m[p][i])] ELSE <<>>

send_graft_prune(s, to_graft, to_prune) ==
    LET gp == SetToSeq(DOMAIN to_graft)
        pp == SetToSeq((DOMAIN to_prune) \ (DOMAIN to_graft))
    IN PushEvents(s,
         [i \in 1..Len(gp) |->
            SendEvent(gp[i], GossipsubRpc(<<>>, <<>>,
                GraftsOf(to_graft, gp[i]) \o PrunesOf(to_prune, gp[i])))]
         \o
         [i \in 1..Len(pp) |->
            SendEvent(pp[i], GossipsubRpc(<<>>, <<>>, PrunesOf(to_prune, pp[i])))])

\* a flush that leaves the pool as it was
flush_control_pool_keep(s) ==
    LET ps == SetToSeq(DOMAIN s.control_pool)
    IN [s EXCEPT
          !.events = @ \o [i \in 1..Len(ps) |->
                             SendEvent(ps[i], GossipsubRpc(<<>>, <<>>, s.control_pool[ps[i]]))]]

flush_control_pool(s) ==
    LET ps == SetToSeq(DOMAIN s.control_pool)
    IN [s EXCEPT
          !.events = @ \o [i \in 1..Len(ps) |->
                             SendEvent(ps[i], GossipsubRpc(<<>>, <<>>, s.control_pool[ps[i]]))],
          !.control_pool = EmptyMap]

\* the states one heartbeat can leave behind
heartbeat(s, cfg, time) ==
    LET H1 == MeshMaintenance({[s |-> s, to_graft |-> EmptyMap, to_prune |-> EmptyMap]},
                              cfg, SetToSeq(DOMAIN s.mesh))
    IN UNION { LET s2 == FanoutExpire(h.s, cfg, time)
               IN { LET s4 == IF h.to_graft # EmptyMap \/ h.to_prune # EmptyMap
                              THEN send_graft_prune(s3, h.to_graft, h.to_prune)
                              ELSE s3
                        s5 == flush_control_pool(s4)
                    IN [s5 EXCEPT !.mcache = MCacheShift(@),
                                  !.put_age = [i \in DOMAIN @ |->
                                                  Cap(@[i] + 1, cfg.history_length)]]
                    : s3 \in FanoutMaintenance({s2}, cfg, SetToSeq(DOMAIN s2.fanout)) }
             : h \in H1 }

\* ---------------------------------------------------------------------
\* peer lifecycle
\* ---------------------------------------------------------------------
inject_connected_known_topics(s, peer) ==
    LET ts == SetToSeq(DOMAIN s.mesh \cup DOMAIN s.fanout)
        subscriptions == [i \in 1..Len(ts) |-> Subscription("Subscribe", ts[i])]
        s1 == IF subscriptions # <<>>
              THEN PushEvents(s, <<SendEvent(peer, GossipsubRpc(subscriptions, <<>>, <<>>))>>)
              ELSE s
    IN [s1 EXCEPT !.peer_topics =
            MapInsert(@, peer, [topics |-> {}, node_type |-> "Gossipsub"])]

inject_connected(s, peer) ==
    LET ts == SetToSeq(DOMAIN s.mesh)
        subscriptions == [i \in 1..Len(ts) |-> Subscription("Subscribe", ts[i])]
        s1 == IF subscriptions # <<>>
              THEN PushEvents(s, <<SendEvent(peer, GossipsubRpc(subscriptions, <<>>, <<>>))>>)
              ELSE s
    IN [s1 EXCEPT !.peer_topics =
            MapInsert(@, peer, [topics |-> {}, node_type |-> "Gossipsub"])]

inject_disconnected(s, peer) ==
    IF peer \notin DOMAIN s.peer_topics THEN s
    ELSE
      LET topics == s.peer_topics[peer].topics
          node_type == s.peer_topics[peer].node_type
      IN [s EXCEPT
            !.mesh = [t \in DOMAIN @ |->
                        IF t \in topics THEN VecRemoveFirst(@[t], peer) ELSE @[t]],
            !.topic_peers = [t \in DOMAIN @ |->
                        IF t \in topics
                        THEN IF node_type = "Gossipsub"
                             THEN [@[t] EXCEPT !.gossipsub = @ \ {peer}]
                             ELSE [@[t] EXCEPT !.floodsub = @ \ {peer}]
                        ELSE @[t]],
            !.peer_topics = MapRemove(@, peer)]

\* ---------------------------------------------------------------------
\* API
\* ---------------------------------------------------------------------
\* subscribe(topic): the states it can leave behind; {s} when it returns false
subscribe(s, cfg, topic) ==
    IF topic \in DOMAIN s.mesh THEN {s}
    ELSE join(PushEvents(s, SubscriptionEvents(s, topic, "Subscribe")), cfg, topic)

unsubscribe(s, topic_hash) ==
    IF topic_hash \notin DOMAIN s.mesh THEN s
    ELSE leave(PushEvents(s, SubscriptionEvents(s, topic_hash, "Unsubscribe")), topic_hash)

\* ---------------------------------------------------------------------
\* configuration and inputs
\* ---------------------------------------------------------------------
\* GossipsubConfig, degrees scaled to three peers
Config(n, low, high) ==
    [mesh_n |-> n, mesh_n_low |-> low, mesh_n_high |-> high, gossip_lazy |-> 1,
     fanout_ttl |-> 1, history_length |-> 2, history_gossip |-> 1,
     prune_backoff |-> 1, backoff_slack |-> 1]

Configs == {Config(2, 2, 3), Config(1, 1, 2)}

\* GossipsubConfig::gossip_factor as a fraction
GossipFactor == [num |-> 3, den |-> 4]

\* sequence numbers of inbound messages: too short, and two full ones
Seqno(n) == <<0, 0, 0, 0, 0, 0, 0, n>>

RxSeqnos == {<<>>, Seqno(0), Seqno(1)}

RxMessages ==
    {[source |-> "p1", sequence_number |-> <<>>, topics |-> {"t1"}],
     [source |-> "p1", sequence_number |-> Seqno(0), topics |-> {"t1", "t2"}],
     [source |-> LocalPeer, sequence_number |-> Seqno(0), topics |-> {"t1"}]}

PubSeqnos == {Seqno(0), Seqno(1)}

PubTopics == {{"t1"}, {"t2"}, {"t1", "t2"}}

MessageIds == ({"p1", LocalPeer}) \X (0..1)

SubRpcs == {GossipsubRpc(<<Subscription(a, t)>>, <<>>, <<>>) :
                a \in {"Subscribe", "Unsubscribe"}, t \in Topics}

GraftRpcs == {GossipsubRpc(<<>>, <<>>, <<Graft(t)>>) : t \in Topics}
             \cup {GossipsubRpc(<<>>, <<>>, <<Graft("t1"), Graft("t2")>>)}

PruneRpcs == {GossipsubRpc(<<>>, <<>>, <<Prune(t)>>) : t \in Topics}

MsgRpcs == {GossipsubRpc(<<>>, <<m>>, <<>>) : m \in RxMessages}

\* ---------------------------------------------------------------------
\* actions
\* ---------------------------------------------------------------------
Idle == Len(events) <= MaxEvents

PoolRoom == \A p \in DOMAIN control_pool : Len(control_pool[p]) < MaxPool

GraftRoom(rpc) ==
    \A c \in SeqRange(rpc.control_msgs) :
        (c.type = "Graft" /\ c.topic_hash \in DOMAIN mesh)
            => VecLen(mesh[c.topic_hash]) < MaxMesh

NoRx == [source |-> "none", messages |-> <<>>]

Frame ==
    /\ UNCHANGED <<config, now, explicit_peers, backoff, discVars, topicVars>>
    /\ last_rx' = NoRx

Subscribe(t) ==
    /\ Idle
    /\ PoolRoom
    /\ \E s1 \in subscribe(Cur, config, t) : Set(s1)
    /\ Frame

Unsubscribe(t) ==
    /\ Idle
    /\ PoolRoom
    /\ Set(unsubscribe(Cur, t))
    /\ Frame

Publish(topics, seqno) ==
    /\ Idle
    /\ \E s1 \in publish_many(Cur, config, now, topics, seqno) : Set(s1)
    /\ Frame

InjectConnected(p) ==
    /\ Idle
    /\ p \notin DOMAIN peer_topics
    /\ Set(inject_connected(Cur, p))
    /\ Frame

InjectDisconnected(p) ==
    /\ Idle
    /\ p \in DOMAIN peer_topics
    /\ Set(inject_disconnected(Cur, p))
    /\ Frame

\* the deadline a PRUNE from the peer sets for each pruned topic that is
\* subscribed (specification 4.4; layer.rs keeps no backoff)
RecordBackoff(b, cfg, time, peer, rpc) ==
    LET pruned == {c.topic_hash : c \in {x \in SeqRange(rpc.control_msgs) : x.type = "Prune"}}
                  \cap DOMAIN mesh
    IN [k \in (DOMAIN b) \cup ({peer} \X pruned) |->
          IF k \in {peer} \X pruned THEN time + cfg.prune_backoff + cfg.backoff_slack
          ELSE b[k]]

\* an RPC arrives from a connected peer; track: keep the backoff history
InjectNodeEvent(p, rpc, track) ==
    /\ Idle
    /\ p \in DOMAIN peer_topics
    /\ GraftRoom(rpc)
    /\ \E fps \in SUBSET (1..Len(rpc.messages)) : Set(inject_node_event(Cur, p, rpc, fps))
    /\ backoff' = IF track THEN RecordBackoff(backoff, config, now, p, rpc) ELSE backoff
    /\ last_rx' = IF rpc.messages = <<>> THEN NoRx ELSE [source |-> p, messages |-> rpc.messages]
    /\ UNCHANGED <<config, now, explicit_peers, discVars, topicVars>>

\* an RPC arrives from a peer that is not connected; the history keeps its
\* source
InjectNodeEventUnknown(p, rpc) ==
    /\ Idle
    /\ p \notin DOMAIN peer_topics
    /\ Set(inject_node_event(Cur, p, rpc, {}))
    /\ last_rx' = [source |-> p, messages |-> rpc.messages]
    /\ UNCHANGED <<config, now, explicit_peers, backoff, discVars, topicVars>>

\* poll with a queued event: hand it out
PollEvent ==
    /\ events # <<>>
    /\ events' = Tail(events)
    /\ last_rx' = NoRx
    /\ UNCHANGED <<config, control_pool, topic_peers, peer_topics, mesh, fanout,
                   fanout_last_pub, mcache, received, now, explicit_peers, backoff, delivered, put_age,
                   discVars, topicVars>>

\* poll with an empty queue while the heartbeat interval has fired
PollHeartbeat ==
    /\ events = <<>>
    /\ \E s1 \in heartbeat(Cur, config, now) : Set(s1)
    /\ Frame

\* time passes
Tick ==
    /\ now < MaxTime
    /\ now' = now + 1
    /\ last_rx' = NoRx
    /\ UNCHANGED <<config, events, control_pool, topic_peers, peer_topics, mesh, fanout,
                   fanout_last_pub, mcache, received, explicit_peers, backoff, delivered, put_age,
                   discVars, topicVars>>

\* add_explicit_peer / remove_explicit_peer (specification 4 and 9)
AddExplicitPeer(p) ==
    /\ explicit_peers' = explicit_peers \cup {p}
    /\ last_rx' = NoRx
    /\ UNCHANGED <<config, events, control_pool, topic_peers, peer_topics, mesh, fanout,
                   fanout_last_pub, mcache, received, now, backoff, delivered, put_age,
                   discVars, topicVars>>

\* the state after construction, for the routing tables the sessions
\* established before have left
\* ---------------------------------------------------------------------
\* TimedSessions (misc/discv5/src/session_service/timed_sessions.rs)
\* ---------------------------------------------------------------------
\* TimedSessions::new: no session, an empty delay queue
TimedSessionsNew(session_establish_timeout) ==
    [sessions |-> EmptyMap, timeouts |-> EmptyMap,
     session_establish_timeout |-> session_establish_timeout]

NoSessionCall == [kind |-> "none", deadlines |-> EmptyMap]

InitTables(cfgs, tables) ==
    /\ config \in cfgs
    /\ events = <<>>
    /\ control_pool = EmptyMap
    /\ topic_peers = [t \in Topics |-> NewPeerList]
    /\ peer_topics = EmptyMap
    /\ mesh = EmptyMap
    /\ fanout = EmptyMap
    /\ fanout_last_pub = EmptyMap
    /\ mcache = MCacheNew(config.history_gossip, config.history_length)
    /\ received = {}
    /\ now = 0
    /\ explicit_peers = {}
    /\ backoff = EmptyMap
    /\ delivered = [i \in MessageIds |-> 0]
    /\ put_age = [i \in MessageIds |-> config.history_length]
    /\ last_rx = NoRx
    /\ disc_events = <<>>
    /\ kbuckets \in tables
    /\ active_queries = EmptyMap
    /\ active_rpc_requests = EmptyMap
    /\ active_nodes_responses = EmptyMap
    /\ next_query_id = 0
    /\ service = EmptyMap
    /\ find_node_results = EmptyMap
    /\ query_call = NoQueryCall
    /\ topic_map = EmptyMap
    /\ tickets = EmptyMap
    /\ queue_result = NoCall
    /\ timed_sessions = TimedSessionsNew(2)
    /\ session_call = NoSessionCall

InitWith(cfgs) == InitTables(cfgs, {{}})

Init == InitWith(Configs)

Next ==
    \/ \E t \in Topics : Subscribe(t)
    \/ \E t \in Topics : Unsubscribe(t)
    \/ \E ts \in PubTopics, sn \in PubSeqnos : Publish(ts, sn)
    \/ \E p \in Peers : InjectConnected(p)
    \/ \E p \in Peers : InjectDisconnected(p)
    \/ \E p \in Peers, rpc \in SubRpcs \cup GraftRpcs \cup PruneRpcs \cup MsgRpcs :
            InjectNodeEvent(p, rpc, FALSE)
    \/ PollEvent
    \/ PollHeartbeat
    \/ Tick

Spec == Init /\ [][Next]_vars

\* ---------------------------------------------------------------------
\* the mesh under subscriptions, GRAFT / PRUNE, churn and heartbeats
\* ---------------------------------------------------------------------
InitMesh == InitWith({Config(2, 2, 3)})

OneTopic == {"t1"}

TwoPeers == {"p1", "p2"}

RpcsAbout(rpcs, topics) ==
    {r \in rpcs :
        /\ \A i \in 1..Len(r.subscriptions) : r.subscriptions[i].topic_hash \in topics
        /\ \A i \in 1..Len(r.control_msgs) : r.control_msgs[i].topic_hash \in topics}

NextMesh ==
    \/ \E t \in OneTopic : Subscribe(t)
    \/ \E t \in OneTopic : Unsubscribe(t)
    \/ \E p \in Peers : InjectConnected(p)
    \/ \E p \in Peers : InjectDisconnected(p)
    \/ \E p \in Peers, rpc \in RpcsAbout(SubRpcs \cup GraftRpcs \cup PruneRpcs, OneTopic) :
            InjectNodeEvent(p, rpc, FALSE)
    \/ PollEvent
    \/ PollHeartbeat

SpecMesh == InitMesh /\ [][NextMesh]_vars

\* the same operations with a configuration whose mesh_n_high inbound GRAFTs
\* can exceed
InitHigh == InitWith({Config(1, 1, 2)})

SpecHigh == InitHigh /\ [][NextMesh]_vars

\* peers that join the topic and leave the mesh again, with heartbeats
NextGrow ==
    \/ \E t \in OneTopic : Subscribe(t)
    \/ \E p \in Peers : InjectConnected(p)
    \/ \E p \in Peers, rpc \in RpcsAbout(SubRpcs \cup GraftRpcs \cup PruneRpcs, OneTopic) :
            InjectNodeEvent(p, rpc, FALSE)
    \/ PollEvent
    \/ PollHeartbeat

SpecGrow == InitMesh /\ [][NextGrow]_vars

\* more subscribed peers than mesh_n_high, and publishes to the subscribed
\* topic
NextFlood ==
    \/ \E t \in OneTopic : Subscribe(t)
    \/ \E p \in Peers : InjectConnected(p)
    \/ \E p \in Peers, rpc \in RpcsAbout(SubRpcs, OneTopic) : InjectNodeEvent(p, rpc, FALSE)
    \/ \E sn \in PubSeqnos : Publish(OneTopic, sn)
    \/ PollEvent
    \/ PollHeartbeat

SpecFlood == InitHigh /\ [][NextFlood]_vars

\* inbound RPCs with one or two IHAVE entries, over both topics, for a
\* message published here and one never seen
IHaveEntries ==
    {IHave(t, ids) : t \in Topics,
                     ids \in {{<<LocalPeer, 0>>}, {<<LocalPeer, 0>>, <<"p1", 1>>}}}

IHaveRpcs ==
    {GossipsubRpc(<<>>, <<>>, <<a>>) : a \in IHaveEntries}
        \cup {GossipsubRpc(<<>>, <<>>, <<ab[1], ab[2]>>) :
                    ab \in {x \in IHaveEntries \X IHaveEntries :
                                x[1].topic_hash # x[2].topic_hash}}

NextIHave ==
    \/ \E t \in OneTopic : Subscribe(t)
    \/ \E p \in TwoPeers : InjectConnected(p)
    \/ \E p \in TwoPeers, rpc \in IHaveRpcs : PoolRoom /\ InjectNodeEvent(p, rpc, FALSE)
    \/ \E sn \in {Seqno(0)} : Publish(OneTopic, sn)
    \/ PollEvent
    \/ PollHeartbeat

SpecIHave == InitMesh /\ [][NextIHave]_vars

\* topic lists of a publish that name the topic t2, never subscribed here
FanoutPubTopics == {{"t2"}, {"t1", "t2"}}

\* publishes to subscribed and unsubscribed topics among peers that
\* subscribe to both topics
NextPub ==
    \/ \E t \in OneTopic : Subscribe(t)
    \/ \E p \in TwoPeers : InjectConnected(p)
    \/ \E p \in TwoPeers, rpc \in SubRpcs : InjectNodeEvent(p, rpc, FALSE)
    \/ \E ts \in FanoutPubTopics : Publish(ts, Seqno(0))
    \/ PollEvent
    \/ PollHeartbeat

SpecPub == InitMesh /\ [][NextPub]_vars

\* publishes to a topic that is never subscribed, while peers come and go
\* and time passes
NextTtl ==
    \/ \E p \in Peers : InjectConnected(p)
    \/ \E p \in Peers : InjectDisconnected(p)
    \/ \E p \in Peers, rpc \in RpcsAbout(SubRpcs, OneTopic) : InjectNodeEvent(p, rpc, FALSE)
    \/ Publish(OneTopic, Seqno(0))
    \/ PollEvent
    \/ PollHeartbeat
    \/ Tick

SpecTtl == InitMesh /\ [][NextTtl]_vars

\* ---------------------------------------------------------------------
\* PRUNE, backoff and the clock
\* ---------------------------------------------------------------------
NextBackoff ==
    \/ \E t \in OneTopic : Subscribe(t)
    \/ \E p \in Peers : InjectConnected(p)
    \/ \E p \in Peers, rpc \in RpcsAbout(SubRpcs \cup PruneRpcs, OneTopic) :
            InjectNodeEvent(p, rpc, TRUE)
    \/ PollEvent
    \/ PollHeartbeat
    \/ Tick

SpecBackoff == InitMesh /\ [][NextBackoff]_vars

\* ---------------------------------------------------------------------
\* explicit peers
\* ---------------------------------------------------------------------
NextExplicit ==
    \/ \E t \in OneTopic : Subscribe(t)
    \/ \E p \in Peers : InjectConnected(p)
    \/ \E p \in {"p1"} : AddExplicitPeer(p)
    \/ \E p \in Peers, rpc \in RpcsAbout(SubRpcs \cup GraftRpcs, OneTopic) :
            InjectNodeEvent(p, rpc, FALSE)
    \/ PollEvent
    \/ PollHeartbeat

SpecExplicit == InitMesh /\ [][NextExplicit]_vars

\* ---------------------------------------------------------------------
\* fanout: publishing to a topic that is not subscribed, then joining it
\* ---------------------------------------------------------------------
NextFanout ==
    \/ \E t \in OneTopic : Subscribe(t)
    \/ \E sn \in {Seqno(0)} : Publish(OneTopic, sn)
    \/ \E p \in Peers : InjectConnected(p)
    \/ \E p \in Peers : InjectDisconnected(p)
    \/ \E p \in Peers, rpc \in RpcsAbout(SubRpcs, OneTopic) : InjectNodeEvent(p, rpc, FALSE)
    \/ PollEvent
    \/ PollHeartbeat
    \/ Tick

SpecFanout == InitMesh /\ [][NextFanout]_vars

\* subscribing to a topic that was published to before
NextJoin ==
    \/ \E t \in OneTopic : Subscribe(t)
    \/ \E sn \in {Seqno(0)} : Publish(OneTopic, sn)
    \/ \E p \in TwoPeers : InjectConnected(p)
    \/ \E p \in TwoPeers, rpc \in RpcsAbout(SubRpcs, OneTopic) : InjectNodeEvent(p, rpc, FALSE)
    \/ PollEvent
    \/ PollHeartbeat

SpecJoin == InitMesh /\ [][NextJoin]_vars

\* control actions buffered by subscribe and unsubscribe, gossip of a
\* published message, and the heartbeat that flushes them
NextFlush ==
    \/ \E t \in OneTopic : Subscribe(t)
    \/ \E t \in OneTopic : Unsubscribe(t)
    \/ \E sn \in {Seqno(0)} : Publish(OneTopic, sn)
    \/ \E p \in TwoPeers : InjectConnected(p)
    \/ \E p \in TwoPeers, rpc \in RpcsAbout(SubRpcs, OneTopic) : InjectNodeEvent(p, rpc, FALSE)
    \/ PollEvent
    \/ PollHeartbeat

SpecFlush == InitHigh /\ [][NextFlush]_vars

\* gossip about a published message to peers that come and go
NextGossip ==
    \/ \E t \in OneTopic : Subscribe(t)
    \/ \E sn \in {Seqno(0)} : Publish(OneTopic, sn)
    \/ \E p \in TwoPeers : InjectConnected(p)
    \/ \E p \in TwoPeers : InjectDisconnected(p)
    \/ \E p \in TwoPeers, rpc \in RpcsAbout(SubRpcs, OneTopic) : InjectNodeEvent(p, rpc, FALSE)
    \/ PollEvent
    \/ PollHeartbeat
    \/ Tick

SpecGossip == InitHigh /\ [][NextGossip]_vars

\* gossip with three peers around a mesh of one
NextLazy ==
    \/ \E t \in OneTopic : Subscribe(t)
    \/ \E sn \in {Seqno(0)} : Publish(OneTopic, sn)
    \/ \E p \in Peers : InjectConnected(p)
    \/ \E p \in Peers, rpc \in RpcsAbout(SubRpcs, OneTopic) : InjectNodeEvent(p, rpc, FALSE)
    \/ PollEvent
    \/ PollHeartbeat

SpecLazy == InitHigh /\ [][NextLazy]_vars

\* ---------------------------------------------------------------------
\* messages: receipt, dedup, forwarding
\* ---------------------------------------------------------------------
NextMsg ==
    \/ \E t \in OneTopic : Subscribe(t)
    \/ \E p \in TwoPeers : InjectConnected(p)
    \/ \E p \in TwoPeers, rpc \in RpcsAbout(SubRpcs, OneTopic) \cup MsgRpcs :
            InjectNodeEvent(p, rpc, FALSE)
    \/ \E sn \in {Seqno(0)} : Publish(OneTopic, sn)
    \/ PollEvent
    \/ PollHeartbeat

SpecMsg == InitMesh /\ [][NextMsg]_vars

\* the message operations together with IWANT requests for the local
\* node's own message
OwnId == <<LocalPeer, 0>>

NextCache ==
    \/ NextMsg
    \/ \E p \in TwoPeers : InjectNodeEvent(p, GossipsubRpc(<<>>, <<>>, <<IWant({OwnId})>>), FALSE)

SpecCache == InitMesh /\ [][NextCache]_vars

\* IWANT requests for the ids of local publishes, alone and together
OwnIds == {<<LocalPeer, 0>>, <<LocalPeer, 1>>}

IWantRpcs == {GossipsubRpc(<<>>, <<>>, <<IWant(ids)>>) : ids \in (SUBSET OwnIds) \ {{}}}

NextIWant ==
    \/ \E t \in OneTopic : Subscribe(t)
    \/ \E p \in TwoPeers : InjectConnected(p)
    \/ \E p \in TwoPeers, rpc \in IWantRpcs : InjectNodeEvent(p, rpc, FALSE)
    \/ \E sn \in PubSeqnos : Publish(OneTopic, sn)
    \/ PollEvent
    \/ PollHeartbeat

SpecIWant == InitMesh /\ [][NextIWant]_vars

\* GRAFTs naming one or both topics while the local node joins them
NextGraft ==
    \/ \E t \in Topics : Subscribe(t)
    \/ \E p \in TwoPeers : InjectConnected(p)
    \/ \E p \in TwoPeers, rpc \in GraftRpcs : InjectNodeEvent(p, rpc, FALSE)
    \/ PollEvent

SpecGraft == InitMesh /\ [][NextGraft]_vars

\* GRAFTs and PRUNEs from two peers over both topics
NextPrune ==
    \/ \E t \in Topics : Subscribe(t)
    \/ \E p \in TwoPeers : InjectConnected(p)
    \/ \E p \in TwoPeers, rpc \in GraftRpcs \cup PruneRpcs : InjectNodeEvent(p, rpc, TRUE)
    \/ PollEvent

SpecPrune == InitMesh /\ [][NextPrune]_vars

\* RPCs that carry at least two of: a subscription, a message, a control
\* action
MixedMessage == [source |-> "p1", sequence_number |-> Seqno(0), topics |-> {"t1", "t2"}]

MixedRpcs ==
    {r \in {GossipsubRpc(subs, msgs, ctl) :
                subs \in {<<>>, <<Subscription("Subscribe", "t1")>>},
                msgs \in {<<>>, <<MixedMessage>>},
                ctl \in {<<>>, <<IWant({id(MixedMessage)})>>, <<Graft("t2")>>}} :
        Cardinality({f \in {"subscriptions", "messages", "control_msgs"} : r[f] # <<>>}) >= 2}

NextOrder ==
    \/ \E t \in OneTopic : Subscribe(t)
    \/ \E p \in TwoPeers : InjectConnected(p)
    \/ \E p \in TwoPeers, rpc \in MixedRpcs : InjectNodeEvent(p, rpc, FALSE)
    \/ PollEvent
    \/ PollHeartbeat

SpecOrder == InitMesh /\ [][NextOrder]_vars

\* connections, local subscriptions over both topics, publishes that open a
\* fanout
NextConn ==
    \/ \E t \in Topics : Subscribe(t)
    \/ \E t \in Topics : Unsubscribe(t)
    \/ \E p \in TwoPeers : InjectConnected(p)
    \/ \E p \in TwoPeers : InjectDisconnected(p)
    \/ \E t \in Topics : Publish({t}, Seqno(0))
    \/ PollEvent

SpecConn == InitMesh /\ [][NextConn]_vars

\* RPCs with two subscription entries
SubRpcs2 ==
    {GossipsubRpc(<<Subscription(a, t), Subscription(b, u)>>, <<>>, <<>>) :
        a \in {"Subscribe", "Unsubscribe"}, b \in {"Subscribe", "Unsubscribe"},
        t \in Topics, u \in Topics}

\* connections and remote subscriptions over both topics
NextSubs ==
    \/ \E t \in OneTopic : Subscribe(t)
    \/ \E p \in TwoPeers : InjectConnected(p)
    \/ \E p \in TwoPeers : InjectDisconnected(p)
    \/ \E p \in TwoPeers, rpc \in SubRpcs \cup SubRpcs2 : InjectNodeEvent(p, rpc, FALSE)
    \/ PollEvent

SpecSubs == InitMesh /\ [][NextSubs]_vars

\* subscription updates from connected and from unconnected peers
NextUnknown ==
    \/ \E t \in OneTopic : Subscribe(t)
    \/ \E p \in TwoPeers : InjectConnected(p)
    \/ \E p \in TwoPeers : InjectDisconnected(p)
    \/ \E p \in TwoPeers, rpc \in SubRpcs : InjectNodeEvent(p, rpc, FALSE)
    \/ \E p \in TwoPeers, rpc \in SubRpcs \cup SubRpcs2 : InjectNodeEventUnknown(p, rpc)
    \/ PollEvent

SpecUnknown == InitMesh /\ [][NextUnknown]_vars

\* configurations with mesh_n_low above mesh_n and with mesh_n above
\* mesh_n_high
InitOdd == InitWith({Config(1, 3, 3), Config(3, 1, 1)})

\* meshes filled by inbound GRAFTs and repaired by the heartbeat
NextOdd ==
    \/ \E t \in OneTopic : Subscribe(t)
    \/ \E p \in TwoPeers : InjectConnected(p)
    \/ \E p \in TwoPeers, rpc \in RpcsAbout(SubRpcs \cup GraftRpcs, OneTopic) :
            InjectNodeEvent(p, rpc, FALSE)
    \/ PollEvent
    \/ PollHeartbeat

SpecOdd == InitOdd /\ [][NextOdd]_vars

\* ---------------------------------------------------------------------
\* Discv5 (misc/discv5/src/behaviour.rs): iterative FIND_NODE queries
\* ---------------------------------------------------------------------
\* node ids; a node's id is also its distance to the target of the query
DiscNodes == {1, 2}

\* the values rand::random() draws for an rpc id
RpcIds == {1, 2}

\* the QueryConfig the behaviour runs with
QueryConfig == [parallelism |-> 2, num_results |-> 2]

\* the iterations per peer a query is started with
QueryIterations == {1, 2}

\* queries find_node may start
MaxQueries == 1

\* FindNodeResult events counted per query (history counter cap)
MaxResults == 2

DiscCur ==
    [events |-> disc_events, kbuckets |-> kbuckets, active_queries |-> active_queries,
     active_rpc_requests |-> active_rpc_requests,
     active_nodes_responses |-> active_nodes_responses, service |-> service]

DiscSet(d) ==
    /\ disc_events' = d.events
    /\ kbuckets' = d.kbuckets
    /\ active_queries' = d.active_queries
    /\ active_rpc_requests' = d.active_rpc_requests
    /\ active_nodes_responses' = d.active_nodes_responses
    /\ service' = d.service

\* QueryPeer::new
QueryPeer(state) == [iteration |-> 1, peers_returned |-> 0, state |-> state]

\* the nodes of S in increasing distance
RECURSIVE ByDistance(_)
ByDistance(S) ==
    IF S = {} THEN <<>>
    ELSE LET n == CHOOSE x \in S : \A y \in S : x <= y IN <<n>> \o ByDistance(S \ {n})

\* Iterator::take
Take(q, k) == SubSeq(q, 1, Min(k, Len(q)))

\* PredicateQuery::with_config
with_config(cfg, known_closest_peers, iterations) ==
    [config |-> cfg,
     untrusted_enrs |-> {},
     progress |-> [kind |-> "Iterating", no_progress |-> 0],
     closest_peers |-> [n \in SeqRange(Take(ByDistance(known_closest_peers), cfg.num_results))
                           |-> QueryPeer("NotContacted")],
     iterations |-> iterations,
     num_waiting |-> 0]

\* PredicateQuery::at_capacity
at_capacity(q) ==
    CASE q.progress.kind = "Stalled" -> q.num_waiting >= q.config.num_results
      [] q.progress.kind = "Iterating" -> q.num_waiting >= q.config.parallelism
      [] OTHER -> TRUE

\* a failure report that leaves the counter of awaited peers alone
on_failure_keeps_count(q, peer) ==
    IF q.progress.kind = "Finished" THEN q
    ELSE IF peer \notin DOMAIN q.closest_peers THEN q
    ELSE IF q.closest_peers[peer].state = "Waiting"
         THEN [q EXCEPT !.closest_peers[peer].state = "Failed"]
         ELSE q

\* PredicateQuery::on_failure
on_failure(q, peer) ==
    IF q.progress.kind = "Finished" THEN q
    ELSE IF peer \notin DOMAIN q.closest_peers THEN q
    ELSE IF q.closest_peers[peer].state = "Waiting"
         THEN [q EXCEPT !.num_waiting = @ - 1, !.closest_peers[peer].state = "Failed"]
         ELSE q

\* the loop of on_success over the reported peers: the peers known to the
\* query and the progress flag, which the last reported peer decides
RECURSIVE IncorporatePeers(_, _, _, _, _)
IncorporatePeers(closest_peers, closer_peers, num_closest, cfg, progress) ==
    IF closer_peers = <<>> THEN [closest_peers |-> closest_peers, progress |-> progress]
    ELSE LET n == Head(closer_peers)
             cp == IF n \in DOMAIN closest_peers THEN closest_peers
                   ELSE MapInsert(closest_peers, n, QueryPeer("NotContacted"))
         IN IncorporatePeers(cp, Tail(closer_peers), num_closest, cfg,
                             (\A m \in DOMAIN cp : n <= m) \/ num_closest < cfg.num_results)

\* PredicateQuery::on_success
on_success(q, node_id, closer_peers) ==
    IF q.progress.kind = "Finished" THEN q
    ELSE IF node_id \notin DOMAIN q.closest_peers THEN q
    ELSE IF q.closest_peers[node_id].state # "Waiting" THEN q
    ELSE
      LET num_closest == Cardinality(DOMAIN q.closest_peers)
          peer == q.closest_peers[node_id]
          returned == peer.peers_returned + num_closest
          peer1 == IF returned >= q.config.num_results
                   THEN [peer EXCEPT !.peers_returned = returned, !.state = "Succeeded"]
                   ELSE IF q.iterations = peer.iteration
                   THEN [peer EXCEPT !.peers_returned = returned,
                                     !.state = IF returned > 0 THEN "Succeeded" ELSE "Failed"]
                   ELSE [peer EXCEPT !.peers_returned = returned,
                                     !.iteration = @ + 1, !.state = "PendingIteration"]
          inc == IncorporatePeers([q.closest_peers EXCEPT ![node_id] = peer1], closer_peers,
                                  num_closest, q.config, FALSE)
          no_progress == IF inc.progress THEN 0 ELSE q.progress.no_progress + 1
          progress ==
              IF q.progress.kind = "Iterating"
              THEN IF no_progress >= q.config.parallelism * q.iterations
                   THEN [kind |-> "Stalled", no_progress |-> 0]
                   ELSE [kind |-> "Iterating", no_progress |-> no_progress]
              ELSE IF inc.progress THEN [kind |-> "Iterating", no_progress |-> 0]
                   ELSE [kind |-> "Stalled", no_progress |-> 0]
      IN [q EXCEPT !.num_waiting = @ - 1, !.closest_peers = inc.closest_peers,
                   !.progress = progress]

Finished(q) == [q EXCEPT !.progress = [kind |-> "Finished", no_progress |-> 0]]

\* the loop of next over the peers in increasing distance; result_counter
\* is -1 for None
RECURSIVE NextScan(_, _, _, _)
NextScan(q, nodes, result_counter, at_cap) ==
    IF nodes = <<>>
    THEN IF q.num_waiting > 0
         THEN [q |-> q, state |-> "Waiting", peer |-> 0]
         ELSE [q |-> Finished(q), state |-> "Finished", peer |-> 0]
    ELSE
      LET n == Head(nodes)
          st == q.closest_peers[n].state
      IN IF st \in {"PendingIteration", "NotContacted"}
         THEN IF ~at_cap
              THEN [q |-> [q EXCEPT !.closest_peers[n].state = "Waiting",
                                    !.num_waiting = @ + 1],
                    state |-> "WaitingPeer", peer |-> n]
              ELSE [q |-> q, state |-> "WaitingAtCapacity", peer |-> 0]
         ELSE IF st = "Waiting"
         THEN IF at_cap
              THEN [q |-> q, state |-> "WaitingAtCapacity", peer |-> 0]
              ELSE NextScan(q, Tail(nodes), -1, at_cap)
         ELSE IF st = "Succeeded" /\ result_counter >= 0
         THEN IF result_counter + 1 >= q.config.num_results
              THEN [q |-> Finished(q), state |-> "Finished", peer |-> 0]
              ELSE NextScan(q, Tail(nodes), result_counter + 1, at_cap)
         ELSE NextScan(q, Tail(nodes), result_counter, at_cap)

\* PredicateQuery::next
next(q) ==
    IF q.progress.kind = "Finished" THEN [q |-> q, state |-> "Finished", peer |-> 0]
    ELSE NextScan(q, ByDistance(DOMAIN q.closest_peers), 0, at_capacity(q))

\* Discv5::find_enr
find_enr(d, node_id) ==
    \/ node_id \in d.kbuckets
    \/ \E i \in DOMAIN d.active_queries : node_id \in d.active_queries[i].untrusted_enrs

\* query.on_failure for a query that is still active
QueryFailure(d, query_id, node_id) ==
    IF query_id \in DOMAIN d.active_queries
    THEN [d EXCEPT !.active_queries[query_id] = on_failure(@, node_id)]
    ELSE d

\* Discv5::send_rpc_request: the outcomes over the rpc id drawn and over the
\* result of service.send_request; query_id is -1 for None
send_rpc_request(d, node_id, req, query_id) ==
    IF ~find_enr(d, node_id) THEN {d}
    ELSE { [d EXCEPT
              !.active_rpc_requests =
                  MapInsert(@, <<rid, node_id>>, [query_id |-> query_id, request |-> req]),
              !.service = MapInsert(@, <<rid, node_id>>, "sent")] : rid \in RpcIds }
         \cup { IF query_id >= 0 THEN QueryFailure(d, query_id, node_id) ELSE d }

\* Discv5::discovered for peers that are not the local node
discovered(d, source, peers, query_id) ==
    LET d1 == [d EXCEPT !.events = @ \o [i \in 1..Len(peers) |-> [type |-> "Discovered",
                                                                   enr |-> peers[i]]]]
    IN IF query_id >= 0 /\ query_id \in DOMAIN d1.active_queries
       THEN [d1 EXCEPT !.active_queries[query_id] =
                on_success([@ EXCEPT !.untrusted_enrs = @ \cup SeqRange(peers)],
                           source, peers)]
       ELSE d1

\* Response::match_request
match_request(res, request) ==
    \/ res.type = "Nodes" /\ request = "FindNode"
    \/ res.type = "Ping" /\ request = "Ping"

\* Discv5::handle_rpc_response; the nodes of a NODES response are those that
\* pass the distance filter
handle_rpc_response(d, node_id, rpc_id, res) ==
    LET req == <<rpc_id, node_id>>
    IN IF req \notin DOMAIN d.active_rpc_requests THEN d
       ELSE
         LET entry == d.active_rpc_requests[req]
             d1 == [d EXCEPT !.active_rpc_requests = MapRemove(@, req)]
         IN IF ~match_request(res, entry.request) THEN d1
            ELSE IF res.type = "Nodes"
            THEN LET current_response ==
                         IF node_id \in DOMAIN d1.active_nodes_responses
                         THEN d1.active_nodes_responses[node_id] ELSE 1
                     d2 == [d1 EXCEPT !.active_nodes_responses = MapRemove(@, node_id)]
                     d3 == IF entry.query_id < 0 THEN d1
                           ELSE IF res.total < 5 /\ current_response < res.total
                           THEN [d2 EXCEPT
                                   !.active_rpc_requests = MapInsert(@, req, entry),
                                   !.active_nodes_responses =
                                       MapInsert(@, node_id, current_response + 1)]
                           ELSE d2
                 IN discovered(d3, node_id, res.nodes, entry.query_id)
            ELSE d1

\* Discv5::rpc_failure
rpc_failure(d, node_id, failed_rpc_id) ==
    LET req == <<failed_rpc_id, node_id>>
    IN IF req \in DOMAIN d.active_rpc_requests /\ d.active_rpc_requests[req].query_id >= 0
       THEN QueryFailure(d, d.active_rpc_requests[req].query_id, node_id)
       ELSE d

\* the loop of poll over the active queries: stops at the first query that
\* is finished or has a peer to contact
RECURSIVE QueryScan(_, _)
QueryScan(d, query_ids) ==
    IF query_ids = <<>> THEN [d |-> d, kind |-> "none", query_id |-> 0, peer |-> 0]
    ELSE LET i == Head(query_ids)
             r == next(d.active_queries[i])
             d1 == [d EXCEPT !.active_queries[i] = r.q]
         IN IF r.state = "Finished"
            THEN [d |-> d1, kind |-> "finished", query_id |-> i, peer |-> 0]
            ELSE IF r.state = "WaitingPeer"
            THEN [d |-> d1, kind |-> "waiting", query_id |-> i, peer |-> r.peer]
            ELSE QueryScan(d1, Tail(query_ids))

\* NODES responses: one or two packets announced, at most one node each
NodesResponses ==
    {[type |-> "Nodes", total |-> total, nodes |-> nodes] :
        total \in {1, 2}, nodes \in {<<>>} \cup {<<n>> : n \in DiscNodes}}

\* the router is left alone
GossipUnchanged ==
    UNCHANGED <<config, events, control_pool, topic_peers, peer_topics, mesh, fanout,
                fanout_last_pub, mcache, received, now, explicit_peers, backoff, delivered,
                put_age, last_rx>>

\* find_node: start_query over the closest keys of the routing table
FindNode(iterations) ==
    /\ next_query_id < MaxQueries
    /\ next_query_id' = next_query_id + 1
    /\ active_queries' = MapInsert(active_queries, next_query_id,
                                   with_config(QueryConfig, kbuckets, iterations))
    /\ find_node_results' = MapInsert(find_node_results, next_query_id, 0)
    /\ UNCHANGED <<disc_events, kbuckets, active_rpc_requests, active_nodes_responses,
                   service>>
    /\ GossipUnchanged /\ UNCHANGED <<topicVars, query_call>>

\* poll with a queued event: hand it out
DiscPollEvent ==
    /\ disc_events # <<>>
    /\ disc_events' = Tail(disc_events)
    /\ UNCHANGED <<kbuckets, active_queries, active_rpc_requests, active_nodes_responses,
                   next_query_id, service, find_node_results>>
    /\ GossipUnchanged /\ UNCHANGED <<topicVars, query_call>>

\* poll takes a response from the session service
DiscResponse(node_id, rpc_id, res) ==
    /\ disc_events = <<>>
    /\ <<rpc_id, node_id>> \in DOMAIN service
    /\ service[<<rpc_id, node_id>>] = "more" => (res.type = "Nodes" /\ res.total = 2)
    /\ LET d == handle_rpc_response(DiscCur, node_id, rpc_id, res)
       IN DiscSet([d EXCEPT !.service =
                      IF res.type = "Nodes" /\ res.total = 2
                           /\ service[<<rpc_id, node_id>>] = "sent"
                      THEN MapInsert(@, <<rpc_id, node_id>>, "more")
                      ELSE MapRemove(@, <<rpc_id, node_id>>)])
    /\ UNCHANGED <<next_query_id, find_node_results>>
    /\ GossipUnchanged /\ UNCHANGED <<topicVars, query_call>>

\* poll takes SessionEvent::RequestFailed from the session service
DiscRequestFailed(node_id, rpc_id) ==
    /\ disc_events = <<>>
    /\ <<rpc_id, node_id>> \in DOMAIN service
    /\ LET d == rpc_failure(DiscCur, node_id, rpc_id)
       IN DiscSet([d EXCEPT !.service = MapRemove(@, <<rpc_id, node_id>>)])
    /\ UNCHANGED <<next_query_id, find_node_results>>
    /\ GossipUnchanged /\ UNCHANGED <<topicVars, query_call>>

\* poll with no queued event and no session event: the active queries
DiscPollQueries ==
    /\ disc_events = <<>>
    /\ LET r == QueryScan(DiscCur, SetToSeq(DOMAIN active_queries))
       IN CASE r.kind = "waiting" ->
                 /\ \E d \in send_rpc_request(r.d, r.peer, "FindNode", r.query_id) : DiscSet(d)
                 /\ UNCHANGED find_node_results
            [] r.kind = "finished" ->
                 /\ DiscSet([r.d EXCEPT !.active_queries = MapRemove(@, r.query_id)])
                 /\ find_node_results' =
                        [find_node_results EXCEPT ![r.query_id] = Cap(@ + 1, MaxResults)]
            [] OTHER ->
                 /\ DiscSet(r.d)
                 /\ UNCHANGED find_node_results
    /\ UNCHANGED next_query_id
    /\ GossipUnchanged /\ UNCHANGED <<topicVars, query_call>>

\* the routing table holds sessions established before
InitDisc == InitTables({Config(2, 2, 3)}, (SUBSET DiscNodes) \ {{}})

NextDisc ==
    \/ \E iterations \in QueryIterations : FindNode(iterations)
    \/ DiscPollEvent
    \/ \E n \in DiscNodes, i \in RpcIds, res \in NodesResponses \cup {[type |-> "Ping"]} :
            DiscResponse(n, i, res)
    \/ \E n \in DiscNodes, i \in RpcIds : DiscRequestFailed(n, i)
    \/ DiscPollQueries

SpecDisc == InitDisc /\ [][NextDisc]_vars

\* some response or failure report is taken for a request in flight
DiscSettle ==
    \/ \E n \in DiscNodes, i \in RpcIds, res \in NodesResponses \cup {[type |-> "Ping"]} :
            DiscResponse(n, i, res)
    \/ \E n \in DiscNodes, i \in RpcIds : DiscRequestFailed(n, i)

\* poll is called again and again, and every request sent is answered or
\* reported as failed
FairSpecDisc ==
    /\ SpecDisc
    /\ WF_vars(DiscPollEvent)
    /\ WF_vars(DiscPollQueries)
    /\ WF_vars(DiscSettle)

\* ---------------------------------------------------------------------
\* PredicateQuery on its own (query_pool/peers/predicate.rs)
\* ---------------------------------------------------------------------
\* node ids, named by their distance to the target
QueryNodes == {1, 2, 3}

\* PredicateQueryConfig values: parallelism below and above num_results
PredicateConfigs == {[parallelism |-> 1, num_results |-> 2],
                     [parallelism |-> 2, num_results |-> 2],
                     [parallelism |-> 2, num_results |-> 1]}

\* the closer_peers lists a response reports
CloserPeers ==
    {<<>>} \cup {<<n>> : n \in QueryNodes}
           \cup {<<n, m>> : n \in QueryNodes, m \in QueryNodes}

\* the query under test
TheQuery == active_queries[0]

\* only the query and its history change
QueryFrame ==
    /\ GossipUnchanged
    /\ UNCHANGED <<topicVars, disc_events, kbuckets, active_rpc_requests,
                   active_nodes_responses, next_query_id, service, find_node_results>>

\* PredicateQuery::with_config
PredicateNew(cfg, known_closest_peers, iterations) ==
    /\ active_queries = EmptyMap
    /\ active_queries' = MapInsert(EmptyMap, 0, with_config(cfg, known_closest_peers, iterations))
    /\ query_call' = [kind |-> "with_config", stalled |-> FALSE, finished |-> FALSE]
    /\ QueryFrame

\* PredicateQuery::next
PredicateNext ==
    /\ 0 \in DOMAIN active_queries
    /\ LET r == next(TheQuery)
       IN /\ active_queries' = [active_queries EXCEPT ![0] = r.q]
          /\ query_call' = [kind |-> "next", state |-> r.state, peer |-> r.peer,
                             stalled |-> query_call.stalled,
                             finished |-> query_call.finished \/ r.state = "Finished"]
    /\ QueryFrame

\* PredicateQuery::on_success
PredicateOnSuccess(node_id, closer_peers) ==
    /\ 0 \in DOMAIN active_queries
    /\ LET q == on_success(TheQuery, node_id, closer_peers)
       IN /\ active_queries' = [active_queries EXCEPT ![0] = q]
          /\ query_call' = [kind |-> "on_success", node_id |-> node_id,
                             closer_peers |-> closer_peers,
                             stalled |-> query_call.stalled \/ q.progress.kind = "Stalled",
                             finished |-> query_call.finished]
    /\ QueryFrame

\* PredicateQuery::on_failure
PredicateOnFailure(peer) ==
    /\ 0 \in DOMAIN active_queries
    /\ active_queries' = [active_queries EXCEPT ![0] = on_failure(TheQuery, peer)]
    /\ query_call' = [kind |-> "on_failure", peer |-> peer,
                       stalled |-> query_call.stalled, finished |-> query_call.finished]
    /\ QueryFrame

NextQuery ==
    \/ \E cfg \in PredicateConfigs, known \in (SUBSET QueryNodes) \ {{}},
           iterations \in QueryIterations : PredicateNew(cfg, known, iterations)
    \/ PredicateNext
    \/ \E n \in QueryNodes, closer_peers \in CloserPeers : PredicateOnSuccess(n, closer_peers)
    \/ \E n \in QueryNodes : PredicateOnFailure(n)

SpecQuery == InitHigh /\ [][NextQuery]_vars

\* ---------------------------------------------------------------------
\* Discv5 topic queue (topic.rs)
\* ---------------------------------------------------------------------

MAX_ENTRIES == 1000
MAX_ENTRIES_PER_TOPIC == 50

\* Ticket::new gives every ticket the same id
TicketId == "test"

\* the ticket ids a caller may present
TicketIds == {"test", "other"}

\* the topic queue as one record
TopicCur == [topic_map |-> topic_map, tickets |-> tickets]

\* Ticket::new
Ticket(peer, wait_time, t) ==
    [id |-> TicketId, peer_id |-> peer, wait_time |-> wait_time, created_time |-> t]

\* Ticket::has_wait_elapsed at instant t
has_wait_elapsed(ticket, t) ==
    IF ticket.created_time + ticket.wait_time < t THEN FALSE ELSE TRUE

\* GlobalTopicQueue::get_queue_size
RECURSIVE SumSizes(_, _)
SumSizes(m, ks) ==
    IF ks = {} THEN 0
    ELSE LET k == CHOOSE x \in ks : TRUE
         IN Len(m[k]) + SumSizes(m, ks \ {k})

get_queue_size(g) == SumSizes(g.topic_map, DOMAIN g.topic_map)

\* the ticket is registered and created_time + wait_time has been reached
TicketWaitOver(g, ticket_id, t) ==
    /\ ticket_id \in DOMAIN g.tickets
    /\ g.tickets[ticket_id].created_time + g.tickets[ticket_id].wait_time <= t

\* GlobalTopicQueue::is_ticket_valid: the result of has_wait_elapsed is
\* dropped and the function ends in `false`
is_ticket_valid(g, ticket_id, t) ==
    LET dropped == IF ticket_id \in DOMAIN g.tickets
                   THEN has_wait_elapsed(g.tickets[ticket_id], t)
                   ELSE FALSE
    IN FALSE

\* TopicQueue::add_to_queue; a full queue calls the unimplemented
\* remove_from_queue, which panics
TopicQueueAdd(queue, peer, t) ==
    IF Len(queue) = MAX_ENTRIES_PER_TOPIC THEN [panic |-> TRUE, queue |-> queue]
    ELSE [panic |-> FALSE, queue |-> Append(queue, <<peer, t>>)]

\* GlobalTopicQueue::add_to_queue: the queue afterwards and the value returned
add_to_queue(g, peer, topic, ticket, t) ==
    IF ~is_ticket_valid(g, ticket, t) THEN [g |-> g, result |-> "None"]
    ELSE IF get_queue_size(g) = MAX_ENTRIES THEN [g |-> g, result |-> "panic"]
    ELSE
      LET old == IF topic \in DOMAIN g.topic_map THEN g.topic_map[topic] ELSE <<>>
          tq == TopicQueueAdd(old, peer, t)
      IN IF tq.panic THEN [g |-> g, result |-> "panic"]
         ELSE [g |-> [g EXCEPT !.topic_map = MapInsert(@, topic, tq.queue)],
               result |-> "Some"]

\* GlobalTopicQueue::issue_ticket; a topic with a queue asks the
\* unimplemented get_wait_time, which panics
issue_ticket(g, peer, topic, t) ==
    IF topic \in DOMAIN g.topic_map THEN g
    ELSE [g EXCEPT !.tickets = MapInsert(@, TicketId, Ticket(peer, 0, t))]

\* everything but the topic queue and the clock is left alone
TopicFrame ==
    /\ UNCHANGED <<config, events, control_pool, topic_peers, peer_topics, mesh, fanout,
                   fanout_last_pub, mcache, received, explicit_peers, backoff, delivered,
                   put_age, discVars, sessionVars>>
    /\ last_rx' = NoRx

IssueTicket(peer, topic) ==
    /\ topic \notin DOMAIN topic_map
    /\ LET g == issue_ticket(TopicCur, peer, topic, now)
       IN /\ topic_map' = g.topic_map
          /\ tickets' = g.tickets
    /\ UNCHANGED <<now, queue_result>>
    /\ TopicFrame

AddToQueue(peer, topic, ticket) ==
    /\ LET r == add_to_queue(TopicCur, peer, topic, ticket, now)
       IN /\ r.result # "panic"
          /\ topic_map' = r.g.topic_map
          /\ tickets' = r.g.tickets
          /\ queue_result' = [kind |-> "call", peer |-> peer, topic |-> topic,
                               ticket |-> ticket, result |-> r.result,
                               valid |-> TicketWaitOver(TopicCur, ticket, now),
                               before |-> topic_map]
    /\ UNCHANGED now
    /\ TopicFrame

NextTopic ==
    \/ \E p \in TwoPeers, t \in Topics : IssueTicket(p, t)
    \/ \E p \in TwoPeers, t \in Topics, k \in TicketIds : AddToQueue(p, t, k)
    \/ Tick

SpecTopic == InitHigh /\ [][NextTopic]_vars

\* ---------------------------------------------------------------------
\* TimedSessions: operations
\* ---------------------------------------------------------------------
\* entries the delay queue holds at most
MaxSessions == 3

SessionIds == {"a", "b"}

Durations == {1, 2}

\* DelayQueue::insert hands out a vacant slab index as the key
DelayKey(ts) == CHOOSE k \in 0..MaxSessions :
                    /\ k \notin DOMAIN ts.timeouts
                    /\ \A j \in 0..(k - 1) : j \in DOMAIN ts.timeouts

\* TimedSessions::insert_at: a new entry of the delay queue, and the session
\* with the key of that entry in place of what sessions held for the node
insert_at(ts, node_id, session, duration, t) ==
    LET delay == DelayKey(ts)
    IN [ts EXCEPT
          !.timeouts = MapInsert(@, delay, [node_id |-> node_id, deadline |-> t + duration]),
          !.sessions = MapInsert(@, node_id, [session |-> session, key |-> delay])]

\* TimedSessions::update_timeout: DelayQueue::reset on the key of the session
update_timeout(ts, node_id, timeout, t) ==
    IF node_id \in DOMAIN ts.sessions
    THEN [ts EXCEPT !.timeouts[ts.sessions[node_id].key].deadline = t + timeout]
    ELSE ts

\* TimedSessions::remove: the session and the entry its key names
remove(ts, node_id) ==
    IF node_id \in DOMAIN ts.sessions
    THEN [ts EXCEPT !.timeouts = MapRemove(@, ts.sessions[node_id].key),
                    !.sessions = MapRemove(@, node_id)]
    ELSE ts

\* entries of the delay queue that have expired at t and that no other
\* expired entry precedes
Expired(ts, t) ==
    {k \in DOMAIN ts.timeouts :
        /\ ts.timeouts[k].deadline <= t
        /\ \A j \in DOMAIN ts.timeouts : ts.timeouts[j].deadline >= ts.timeouts[k].deadline}

\* Stream::poll_next: what it can return and the state it leaves
poll_next(ts, t) ==
    IF Expired(ts, t) = {} THEN {[ts |-> ts, kind |-> "Pending"]}
    ELSE { LET node_id == ts.timeouts[k].node_id
               t1 == [ts EXCEPT !.timeouts = MapRemove(@, k)]
           IN IF node_id \in DOMAIN ts.sessions
              THEN [ts |-> [t1 EXCEPT !.sessions = MapRemove(@, node_id)], kind |-> "Ok",
                    node_id |-> node_id, session |-> ts.sessions[node_id].session]
              ELSE [ts |-> t1, kind |-> "Err"]
           : k \in Expired(ts, t) }

SessionFrame ==
    /\ GossipUnchanged
    /\ UNCHANGED <<discVars, topic_map, tickets, queue_result>>

SessionInsert(node_id, session) ==
    /\ Cardinality(DOMAIN timed_sessions.timeouts) < MaxSessions
    /\ timed_sessions' = insert_at(timed_sessions, node_id, session,
                                   timed_sessions.session_establish_timeout, now)
    /\ session_call' = [kind |-> "insert", node_id |-> node_id,
                        deadlines |-> MapInsert(session_call.deadlines, node_id,
                                        now + timed_sessions.session_establish_timeout)]
    /\ SessionFrame

SessionInsertAt(node_id, session, duration) ==
    /\ Cardinality(DOMAIN timed_sessions.timeouts) < MaxSessions
    /\ timed_sessions' = insert_at(timed_sessions, node_id, session, duration, now)
    /\ session_call' = [kind |-> "insert_at", node_id |-> node_id,
                        deadlines |-> MapInsert(session_call.deadlines, node_id, now + duration)]
    /\ SessionFrame

SessionUpdateTimeout(node_id, timeout) ==
    /\ timed_sessions' = update_timeout(timed_sessions, node_id, timeout, now)
    /\ session_call' = [kind |-> "update_timeout", node_id |-> node_id,
                        deadlines |-> IF node_id \in DOMAIN timed_sessions.sessions
                                      THEN MapInsert(session_call.deadlines, node_id, now + timeout)
                                      ELSE session_call.deadlines]
    /\ SessionFrame

SessionRemove(node_id) ==
    /\ timed_sessions' = remove(timed_sessions, node_id)
    /\ session_call' = [kind |-> "remove", node_id |-> node_id,
                        deadlines |-> MapRemove(session_call.deadlines, node_id)]
    /\ SessionFrame

SessionPoll ==
    /\ \E r \in poll_next(timed_sessions, now) :
          /\ timed_sessions' = r.ts
          /\ session_call' =
                IF r.kind = "Ok"
                THEN [kind |-> "Ok", node_id |-> r.node_id, session |-> r.session,
                      deadlines |-> MapRemove(session_call.deadlines, r.node_id)]
                ELSE [kind |-> r.kind, deadlines |-> session_call.deadlines]
    /\ SessionFrame

NextSessions ==
    \/ \E n \in DiscNodes, x \in SessionIds : SessionInsert(n, x)
    \/ \E n \in DiscNodes, x \in SessionIds, d \in Durations : SessionInsertAt(n, x, d)
    \/ \E n \in DiscNodes, d \in Durations : SessionUpdateTimeout(n, d)
    \/ \E n \in DiscNodes : SessionRemove(n)
    \/ SessionPoll
    \/ Tick

SpecSessions == InitHigh /\ [][NextSessions]_vars

\* ---------------------------------------------------------------------
\* properties
\* ---------------------------------------------------------------------
\* what a handler appended to the event queue in a step
NewEvents == SubSeq(events', Len(events) + 1, Len(events'))

PoolOf(pool, p) == IF p \in DOMAIN pool THEN pool[p] ELSE <<>>

CountIn(q, x) == Cardinality({i \in 1..Len(q) : q[i] = x})

\* control actions equal to c that a step buffered for p
Buffered(p, c) == CountIn(PoolOf(control_pool', p), c) - CountIn(PoolOf(control_pool, p), c)

\* C1: after inject_disconnected(p) for a connected peer p, p is in no
\* mesh[t], in no fanout[t], in no topic_peers[t], and peer_topics has no
\* record for p.
C1_DisconnectedPeerIsGone ==
    [][\A p \in Peers :
          (p \in DOMAIN peer_topics /\ InjectDisconnected(p)) =>
              /\ \A t \in DOMAIN mesh' : ~VecContains(mesh'[t], p)
              /\ \A t \in DOMAIN fanout' : ~VecContains(fanout'[t], p)
              /\ \A t \in Topics : p \notin topic_peers'[t].gossipsub \cup topic_peers'[t].floodsub
              /\ p \notin DOMAIN peer_topics']_vars

\* C2: in every reachable state every peer of mesh[t] is connected and has
\* announced a subscription to t (it is in topic_peers[t] and its record
\* lists t).
C2_MeshPeersSubscribed ==
    \A t \in DOMAIN mesh : \A p \in VecPeers(mesh[t]) :
        /\ p \in DOMAIN peer_topics
        /\ t \in peer_topics[p].topics
        /\ p \in topic_peers[t].gossipsub \cup topic_peers[t].floodsub

\* C5: after unsubscribe(t) on a subscribed topic mesh[t] is absent, each
\* peer that was in mesh[t] got exactly one PRUNE for t buffered, and no
\* other peer got one.
C5_UnsubscribePrunesOnce ==
    [][\A t \in Topics :
          (t \in DOMAIN mesh /\ Unsubscribe(t)) =>
              /\ t \notin DOMAIN mesh'
              /\ \A p \in Peers :
                    Buffered(p, Prune(t)) = IF VecContains(mesh[t], p) THEN 1 ELSE 0]_vars

\* C6: a heartbeat leaves between mesh_n_low and mesh_n_high peers in the
\* mesh of every subscribed topic that at least mesh_n_high peers subscribe to.
C6_HeartbeatMeshDegree ==
    [][PollHeartbeat =>
          \A t \in DOMAIN mesh' :
              Cardinality(topic_peers[t].gossipsub) >= config.mesh_n_high =>
                  /\ config.mesh_n_low <= Cardinality(VecPeers(mesh'[t]))
                  /\ Cardinality(VecPeers(mesh'[t])) <= config.mesh_n_high]_vars

\* SUBSCRIBE notifications for t among the events of a step
SubscribeSentTo(p, t) ==
    \E i \in 1..Len(NewEvents) :
        /\ NewEvents[i].kind = "SendEvent"
        /\ NewEvents[i].peer_id = p
        /\ NewEvents[i].event.subscriptions = <<Subscription("Subscribe", t)>>

\* C10: subscribe(t) on a topic not yet subscribed enqueues a SUBSCRIBE for
\* t to every connected peer, whether or not it announced t; on a subscribed
\* topic it enqueues nothing.
C10_SubscribeNotifiesAll ==
    [][\A t \in Topics :
          Subscribe(t) =>
              IF t \in DOMAIN mesh THEN events' = events
              ELSE \A p \in DOMAIN peer_topics : SubscribeSentTo(p, t)]_vars

\* (p, t) is under backoff
Active(p, t) == <<p, t>> \in DOMAIN backoff /\ now < backoff[<<p, t>>]

OldCount(p, t) == IF t \in DOMAIN mesh THEN mesh[t][p] ELSE 0

\* a step put p into mesh[t] (once more)
AddedToMesh(p, t) == t \in DOMAIN mesh' /\ mesh'[t][p] > OldCount(p, t)

\* a step enqueued an RPC for p that carries the control action c
ControlSentTo(p, c) ==
    \E i \in 1..Len(NewEvents) :
        /\ NewEvents[i].kind = "SendEvent"
        /\ NewEvents[i].peer_id = p
        /\ c \in SeqRange(NewEvents[i].event.control_msgs)

\* C7: after a PRUNE for t from p, no heartbeat and no JOIN re-adds p to
\* mesh[t] or sends it a GRAFT for t before the backoff has expired; after
\* that a heartbeat that needs p to reach mesh_n grafts it again.
C7_BackoffHonoured ==
    [][\A p \in Peers, t \in Topics :
          /\ (Active(p, t) /\ (PollHeartbeat \/ Subscribe(t))) =>
                /\ ~AddedToMesh(p, t)
                /\ ~ControlSentTo(p, Graft(t))
                /\ Buffered(p, Graft(t)) <= 0
          /\ ( /\ <<p, t>> \in DOMAIN backoff
               /\ ~Active(p, t)
               /\ PollHeartbeat
               /\ t \in DOMAIN mesh
               /\ VecLen(mesh[t]) < config.mesh_n_low
               /\ p \in topic_peers[t].gossipsub \ VecPeers(mesh[t])
               /\ Cardinality(topic_peers[t].gossipsub \ VecPeers(mesh[t]))
                      <= config.mesh_n - VecLen(mesh[t]) )
              => (AddedToMesh(p, t) /\ ControlSentTo(p, Graft(t)))]_vars

\* C8: an explicit peer never enters a mesh: JOIN and the heartbeat do not
\* select it, and a GRAFT from it is answered with a PRUNE for each grafted
\* topic and leaves the mesh unchanged.
C8_ExplicitPeerNotInMesh ==
    [][\A p \in explicit_peers :
          /\ \A t \in Topics : ~AddedToMesh(p, t)
          /\ \A rpc \in GraftRpcs :
                InjectNodeEvent(p, rpc, FALSE) =>
                    /\ mesh' = mesh
                    /\ \A c \in SeqRange(rpc.control_msgs) :
                          ControlSentTo(p, Prune(c.topic_hash))]_vars

\* C9: subscribe(t) on an unsubscribed topic leaves pairwise distinct peers
\* in mesh[t], mesh_n of them when topic_peers[t] has that many eligible
\* peers and all eligible ones otherwise, and buffers exactly one GRAFT for
\* t for each of them and for no other peer.
C9_JoinBuildsMesh ==
    [][\A t \in Topics :
          (t \notin DOMAIN mesh /\ Subscribe(t)) =>
              /\ t \in DOMAIN mesh'
              /\ \A p \in Peers : mesh'[t][p] <= 1
              /\ VecPeers(mesh'[t]) \subseteq topic_peers[t].gossipsub
              /\ VecLen(mesh'[t]) = Min(config.mesh_n, Cardinality(topic_peers[t].gossipsub))
              /\ \A p \in Peers :
                    Buffered(p, Graft(t)) = IF VecContains(mesh'[t], p) THEN 1 ELSE 0]_vars

\* C3: at most one Message app event is ever enqueued per message-id; a
\* receipt of an id that was seen before enqueues no app event and no
\* forwarding RPC.
C3_AtMostOneAppEvent ==
    [][/\ \A i \in MessageIds : delivered'[i] <= 1
       /\ \A i \in 1..Len(last_rx'.messages) :
             id(last_rx'.messages[i]) \in received => events' = events]_vars

\* the last step handled a message whose id had been delivered before, and
\* nothing was enqueued for it
C3_Witness ==
    /\ last_rx # NoRx
    /\ delivered[id(last_rx.messages[1])] = 1
    /\ events = <<>>

\* C4: handling a message received from p enqueues no RPC for p that
\* carries the message.
C4_NotForwardedToSource ==
    [][\A i \in 1..Len(NewEvents) :
          ~ /\ NewEvents[i].kind = "SendEvent"
            /\ NewEvents[i].peer_id = last_rx'.source
            /\ SeqRange(NewEvents[i].event.messages) \cap SeqRange(last_rx'.messages) # {}]_vars

\* a message of t1 was delivered and forwarded to the mesh peer p2 but not
\* to the mesh peer p1, its source
C4_Witness ==
    /\ last_rx.source = "p1"
    /\ "t1" \in DOMAIN mesh
    /\ {"p1", "p2"} \subseteq VecPeers(mesh["t1"])
    /\ \E m \in RxMessages :
          /\ "t1" \in m.topics
          /\ events = <<GenerateEvent([type |-> "Message", msg |-> m]),
                        SendEvent("p2", GossipsubRpc(<<>>, <<m>>, <<>>))>>

\* the subscription entries of an RPC, as a set
SubscriptionsOf(rpc) == {rpc.subscriptions[i] : i \in 1..Len(rpc.subscriptions)}

\* the events of a step are one RPC for p announcing exactly the subscribed topics
AnnouncesMesh(p) ==
    /\ Len(NewEvents) = 1
    /\ NewEvents[1].kind = "SendEvent"
    /\ NewEvents[1].peer_id = p
    /\ NewEvents[1].event.messages = <<>>
    /\ NewEvents[1].event.control_msgs = <<>>
    /\ Len(NewEvents[1].event.subscriptions) = Cardinality(DOMAIN mesh)
    /\ SubscriptionsOf(NewEvents[1].event) = {Subscription("Subscribe", t) : t \in DOMAIN mesh}

NewRecord(p) ==
    /\ p \in DOMAIN peer_topics'
    /\ peer_topics'[p] = [topics |-> {}, node_type |-> "Gossipsub"]

\* C11 as stated: inject_connected(p) creates an empty gossipsub record for
\* p and enqueues exactly one RPC to p with one Subscribe entry per
\* subscribed topic and no other entry.
C11_ConnectedAlwaysAnnounces ==
    [][\A p \in Peers : InjectConnected(p) => (NewRecord(p) /\ AnnouncesMesh(p))]_vars

\* C11 amended: inject_connected(p) creates an empty gossipsub record for p;
\* when the local node is subscribed to at least one topic it enqueues
\* exactly one RPC to p with one Subscribe entry per subscribed topic and no
\* other entry, and when it is subscribed to none it enqueues nothing.
C11_ConnectedAnnouncesMesh ==
    [][\A p \in Peers :
          InjectConnected(p) =>
              /\ NewRecord(p)
              /\ IF DOMAIN mesh = {} THEN events' = events ELSE AnnouncesMesh(p)]_vars

\* a peer connected while both topics were subscribed and one announcement
\* of both is waiting for it
C11_Witness ==
    /\ DOMAIN mesh = Topics
    /\ \E p \in DOMAIN peer_topics :
          /\ peer_topics[p].topics = {}
          /\ Len(events) = 1
          /\ events[1].kind = "SendEvent"
          /\ events[1].peer_id = p
          /\ Len(events[1].event.subscriptions) = 2

\* C12: in every reachable state p is listed in topic_peers[t] if and only
\* if peer_topics has a record for p that lists t.
C12_TopicPeersMatchRecords ==
    \A p \in Peers, t \in Topics :
        (p \in topic_peers[t].gossipsub \cup topic_peers[t].floodsub)
            <=> (p \in DOMAIN peer_topics /\ t \in peer_topics[p].topics)

\* one peer is connected and subscribed to t2 only, the other is not
\* connected, and the local node just heard the first one leave t1
C12_Witness ==
    /\ DOMAIN peer_topics = {"p1"}
    /\ peer_topics["p1"].topics = {"t2"}
    /\ topic_peers["t2"].gossipsub = {"p1"}
    /\ topic_peers["t1"].gossipsub = {}
    /\ events = <<GenerateEvent([type |-> "Unsubscribed", peer_id |-> "p1", topic |-> "t1"])>>

\* control actions equal to c in the RPCs for p among the events evs
RECURSIVE ControlCount(_, _, _)
ControlCount(evs, p, c) ==
    IF evs = <<>> THEN 0
    ELSE (IF Head(evs).kind = "SendEvent" /\ Head(evs).peer_id = p
          THEN CountIn(Head(evs).event.control_msgs, c)
          ELSE 0) + ControlCount(Tail(evs), p, c)

SentIn(p, c) == ControlCount(NewEvents, p, c)

\* control actions equal to c a heartbeat sent to p on its own account: what
\* it enqueued less what the control pool held for p before
SentByHeartbeat(p, c) == SentIn(p, c) - CountIn(PoolOf(control_pool, p), c)

C14_HeartbeatShrinksMesh ==
    [][\A t \in DOMAIN mesh :
          (PollHeartbeat /\ VecLen(mesh[t]) > config.mesh_n_high)
          => /\ t \in DOMAIN mesh'
             /\ VecLen(mesh'[t]) = config.mesh_n
             /\ VecPeers(mesh'[t]) \subseteq VecPeers(mesh[t])
             /\ \A p \in Peers :
                   (SentByHeartbeat(p, Prune(t)) > 0)
                       <=> (p \in VecPeers(mesh[t]) \ VecPeers(mesh'[t]))]_vars

\* RPCs carrying a message that a step enqueued for p
MessageRpcsFor(p) ==
    {i \in 1..Len(NewEvents) :
        /\ NewEvents[i].kind = "SendEvent"
        /\ NewEvents[i].peer_id = p
        /\ NewEvents[i].event.messages # <<>>}

\* C15: one publish, also one naming several topics of which some are
\* subscribed and some served by fanout, enqueues at most one RPC carrying
\* the message for any peer.
C15_PublishOncePerPeer ==
    [][\A ts \in FanoutPubTopics :
          Publish(ts, Seqno(0)) =>
              \A p \in Peers : Cardinality(MessageRpcsFor(p)) <= 1]_vars

\* the events of a step are one RPC with exactly the message m for each
\* peer of the Vec v and nothing else
SentExactlyTo(v, m) ==
    /\ \A i \in 1..Len(NewEvents) :
          /\ NewEvents[i].kind = "SendEvent"
          /\ NewEvents[i].event = GossipsubRpc(<<>>, <<m>>, <<>>)
    /\ \A p \in Peers :
          Cardinality(MessageRpcsFor(p)) = IF VecContains(v, p) THEN 1 ELSE 0

\* C16: publishing to a topic t that is neither subscribed nor in fanout
\* creates fanout[t] with min(mesh_n, number of gossipsub peers of
\* topic_peers[t]) distinct peers, records fanout_last_pub[t] and sends the
\* message to exactly the peers of fanout[t]; publishing while fanout[t]
\* exists keeps its membership, refreshes fanout_last_pub[t] and sends the
\* message to exactly its peers.
C16_PublishBuildsFanout ==
    [][\A t \in Topics :
          (t \notin DOMAIN mesh /\ Publish({t}, Seqno(0))) =>
              /\ t \in DOMAIN fanout' /\ t \in DOMAIN fanout_last_pub'
              /\ fanout_last_pub'[t] = now
              /\ IF t \in DOMAIN fanout
                 THEN fanout'[t] = fanout[t]
                 ELSE /\ \A p \in Peers : fanout'[t][p] <= 1
                      /\ VecPeers(fanout'[t]) \subseteq topic_peers[t].gossipsub
                      /\ VecLen(fanout'[t]) =
                             Min(config.mesh_n, Cardinality(topic_peers[t].gossipsub))
              /\ SentExactlyTo(fanout'[t],
                               [source |-> LocalPeer, sequence_number |-> Seqno(0),
                                topics |-> {t}])]_vars

\* a publish at a later time found or built a fanout of mesh_n of the three
\* subscribed peers and the message waits for exactly these
C16_Witness ==
    /\ "t1" \in DOMAIN fanout
    /\ Cardinality(topic_peers["t1"].gossipsub) = 3
    /\ VecLen(fanout["t1"]) = 2
    /\ now > 0
    /\ fanout_last_pub["t1"] = now
    /\ Len(events) = 2
    /\ \A i \in 1..2 :
          /\ events[i].kind = "SendEvent"
          /\ VecContains(fanout["t1"], events[i].peer_id)
          /\ events[i].event.messages # <<>>

\* C19: a heartbeat removes fanout[t] together with fanout_last_pub[t]
\* exactly when more than fanout_ttl has passed since the last publish to t.
C19_FanoutExpiry ==
    [][PollHeartbeat =>
          \A t \in DOMAIN fanout :
              /\ t \in DOMAIN fanout_last_pub
              /\ IF fanout_last_pub[t] + config.fanout_ttl < now
                 THEN t \notin DOMAIN fanout' /\ t \notin DOMAIN fanout_last_pub'
                 ELSE /\ t \in DOMAIN fanout' /\ t \in DOMAIN fanout_last_pub'
                      /\ fanout_last_pub'[t] = fanout_last_pub[t]]_vars

\* the local node published to t1, which it never subscribes to, and a
\* heartbeat after more than fanout_ttl removed the fanout
C19_Witness ==
    /\ received # {}
    /\ "t1" \notin DOMAIN fanout
    /\ "t1" \notin DOMAIN fanout_last_pub
    /\ now = 2

\* the message publish(t1) builds
OwnMessage == [source |-> LocalPeer, sequence_number |-> Seqno(0), topics |-> OneTopic]

\* C17: a locally published message is put into the message cache and the
\* received filter; while cached it is served to an IWANT, the filter never
\* forgets it, and a later receipt of its id from any peer enqueues nothing
\* and delivers nothing.
C17_PublishedIsCachedAndKnown ==
    [][/\ Publish(OneTopic, Seqno(0)) =>
             /\ id(OwnMessage) \in received'
             /\ MCacheGet(mcache', id(OwnMessage)) = {OwnMessage}
       /\ received \subseteq received'
       /\ \A p \in DOMAIN peer_topics :
             ( /\ MCacheGet(mcache, OwnId) # {}
               /\ InjectNodeEvent(p, GossipsubRpc(<<>>, <<>>, <<IWant({OwnId})>>), FALSE) )
             => NewEvents = <<SendEvent(p, GossipsubRpc(<<>>, <<OwnMessage>>, <<>>))>>
       /\ \A i \in 1..Len(last_rx'.messages) :
             ( /\ id(last_rx'.messages[i]) = OwnId
               /\ OwnId \in received )
             => (events' = events /\ delivered' = delivered)]_vars

\* the local node published, and the echo of the message that came back
\* from p1 was dropped
C17_Witness ==
    /\ last_rx = [source |-> "p1", messages |-> <<OwnMessage>>]
    /\ MCacheGet(mcache, OwnId) = {OwnMessage}
    /\ delivered[OwnId] = 0
    /\ events = <<>>

\* C18: a publish to t1 sends the message to every connected peer
\* subscribed to t1, also to the peers outside the mesh when more than
\* mesh_n_high peers are subscribed.
C18_PublishFloods ==
    [][\A sn \in PubSeqnos :
          Publish(OneTopic, sn) =>
              \A p \in topic_peers["t1"].gossipsub \cup topic_peers["t1"].floodsub :
                  MessageRpcsFor(p) # {}]_vars

\* the ids the IHAVE entries of the RPC advertise for subscribed topics and
\* the received filter does not hold
UnseenAdvertised(rpc) ==
    UNION {rpc.control_msgs[i].message_ids \ received :
              i \in {j \in 1..Len(rpc.control_msgs) :
                        rpc.control_msgs[j].topic_hash \in DOMAIN mesh}}

\* C20: an inbound RPC with several IHAVE entries adds to the control pool
\* of the sender a single IWANT with exactly the ids advertised for
\* subscribed topics that the received filter does not hold, entries for
\* unsubscribed topics being skipped, and adds nothing when there is no
\* such id.
C20_IHaveRequestsUnseen ==
    \A p \in DOMAIN peer_topics, rpc \in IHaveRpcs :
        inject_node_event(Cur, p, rpc, {}).control_pool =
            IF UnseenAdvertised(rpc) = {} THEN control_pool
            ELSE control_pool_add(control_pool, p, IWant(UnseenAdvertised(rpc)))

\* the requested ids that were put in the cache fewer than history_length
\* cache shifts ago
FreshIds(ids) == {i \in ids : put_age[i] < config.history_length}

\* C21: an IWANT from p is answered with one RPC sent directly to p that
\* carries the stored message of exactly the requested ids put in the cache
\* fewer than history_length shifts ago; with no such id the event queue is
\* left unchanged, and the control pool is left unchanged in either case.
C21_IWantServedWhileCached ==
    \A p \in DOMAIN peer_topics, rpc \in IWantRpcs :
        LET s1 == inject_node_event(Cur, p, rpc, {})
            ids == rpc.control_msgs[1].message_ids
        IN /\ s1.control_pool = control_pool
           /\ IF FreshIds(ids) = {} THEN s1.events = events
              ELSE /\ Len(s1.events) = Len(events) + 1
                   /\ SubSeq(s1.events, 1, Len(events)) = events
                   /\ LET e == s1.events[Len(s1.events)]
                      IN /\ e.kind = "SendEvent" /\ e.peer_id = p
                         /\ e.event.subscriptions = <<>> /\ e.event.control_msgs = <<>>
                         /\ Len(e.event.messages) = Cardinality(FreshIds(ids))
                         /\ {id(m) : m \in SeqRange(e.event.messages)} = FreshIds(ids)
                         /\ \A m \in SeqRange(e.event.messages) :
                               m.source = LocalPeer /\ m.topics = OneTopic

\* p1 asked for both published ids one shift after the first was put and
\* right after the second was put, and was sent both
C21_Witness ==
    /\ put_age[<<LocalPeer, 0>>] = 1
    /\ put_age[<<LocalPeer, 1>>] = 0
    /\ Len(events) = 1
    /\ events[1].kind = "SendEvent" /\ events[1].peer_id = "p1"
    /\ Len(events[1].event.messages) = 2

C23_SubsThenMessagesThenControl ==
    \A p \in DOMAIN peer_topics, rpc \in MixedRpcs :
      \A fps \in SUBSET (1..Len(rpc.messages)) :
        LET a == inject_node_event(Cur, p, GossipsubRpc(rpc.subscriptions, <<>>, <<>>), {})
            b == inject_node_event(a, p, GossipsubRpc(<<>>, rpc.messages, <<>>), fps)
            c == inject_node_event(b, p, GossipsubRpc(<<>>, <<>>, rpc.control_msgs), {})
        IN inject_node_event(Cur, p, rpc, fps) = c

\* one RPC of p1 announced t1, carried a message of t1 and asked for that
\* message: the announcement was reported, the message delivered, and the
\* IWANT answered from the cache the message had just entered
C23_Witness ==
    events = <<GenerateEvent([type |-> "Subscribed", peer_id |-> "p1", topic |-> "t1"]),
               GenerateEvent([type |-> "Message", msg |-> MixedMessage]),
               SendEvent("p1", GossipsubRpc(<<>>, <<MixedMessage>>, <<>>))>>

\* C24: poll hands out the oldest queued event, and a poll call that fires
\* the heartbeat and returns not-ready leaves no event in the queue.
C24_PollDrainsQueue ==
    [][/\ PollEvent => events' = Tail(events)
       /\ PollHeartbeat => events' = <<>>]_vars

\* C25: under repeated polls and with every request answered or reported
\* as failed, a query started with find_node hands out its FindNodeResult,
\* and never more than one.
C25_FindNodeTerminates ==
    /\ [](\A i \in DOMAIN find_node_results : find_node_results[i] <= 1)
    /\ \A i \in 0..(MaxQueries - 1) :
          (i \in DOMAIN find_node_results)
              ~> (i \in DOMAIN find_node_results /\ find_node_results[i] = 1)

\* C26: add_to_queue returns Some(()) and appends the peer to the topic's
\* queue when the ticket was issued and its wait time has elapsed; otherwise
\* it returns None and changes nothing.
C26_AddToQueueWhenTicketValid ==
    queue_result.kind = "call" =>
        IF queue_result.valid
        THEN /\ queue_result.result = "Some"
             /\ queue_result.topic \in DOMAIN topic_map
             /\ topic_map[queue_result.topic] # <<>>
             /\ topic_map[queue_result.topic][Len(topic_map[queue_result.topic])][1]
                    = queue_result.peer
        ELSE /\ queue_result.result = "None"
             /\ topic_map = queue_result.before

\* C27: subscribe(t) while fanout[t] exists leaves neither fanout[t] nor
\* fanout_last_pub[t] behind, and min(|fanout[t]|, mesh_n) of the former
\* fanout peers are members of mesh[t].
C27_JoinTakesFanout ==
    [][\A t \in Topics :
          (t \in DOMAIN fanout /\ Subscribe(t)) =>
              /\ t \notin DOMAIN fanout'
              /\ t \notin DOMAIN fanout_last_pub'
              /\ t \in DOMAIN mesh'
              /\ Cardinality({p \in VecPeers(fanout[t]) : VecContains(mesh'[t], p)})
                    = Min(VecLen(fanout[t]), config.mesh_n)]_vars

\* a mesh built by subscribe from a fanout peer: the peer taken from the
\* fanout was drawn again by the fill-up, which only a former fanout allows
C27_Witness ==
    /\ "t1" \in DOMAIN mesh
    /\ "t1" \notin DOMAIN fanout
    /\ "t1" \notin DOMAIN fanout_last_pub
    /\ received # {}
    /\ mesh["t1"]["p1"] = 2
    /\ "p1" \in DOMAIN control_pool
    /\ control_pool["p1"] = <<Graft("t1"), Graft("t1")>>

\* an RPC of send_graft_prune: a GRAFT for each topic whose mesh gained the
\* peer, a PRUNE for each topic whose mesh lost it
GraftPruneRpc(e) ==
    /\ e.kind = "SendEvent"
    /\ e.event.subscriptions = <<>>
    /\ e.event.messages = <<>>
    /\ e.event.control_msgs # <<>>
    /\ \A c \in SeqRange(e.event.control_msgs) :
          /\ c.type \in {"Graft", "Prune"}
          /\ c.topic_hash \in DOMAIN mesh
          /\ c.topic_hash \in DOMAIN mesh'
          /\ c.type = "Graft" => mesh'[c.topic_hash][e.peer_id] > mesh[c.topic_hash][e.peer_id]
          /\ c.type = "Prune" => mesh'[c.topic_hash][e.peer_id] < mesh[c.topic_hash][e.peer_id]

\* the RPC that flushes the buffer of its peer: what the pool held for the
\* peer, in order, followed by the IHAVEs of this heartbeat
FlushRpc(e) ==
    /\ e.kind = "SendEvent"
    /\ e.event.subscriptions = <<>>
    /\ e.event.messages = <<>>
    /\ e.event.control_msgs # <<>>
    /\ LET b == PoolOf(control_pool, e.peer_id)
           c == e.event.control_msgs
       IN /\ Len(c) >= Len(b)
          /\ SubSeq(c, 1, Len(b)) = b
          /\ \A i \in (Len(b) + 1)..Len(c) : c[i].type = "IHave"

\* C28: after a heartbeat the control pool is empty, and each peer with
\* buffered control actions got exactly one RPC that holds exactly its
\* actions in the order they were buffered; the buffers of different peers
\* are never mixed.
C28_HeartbeatFlushesPool ==
    [][PollHeartbeat =>
          /\ control_pool' = EmptyMap
          /\ \E k \in 0..Len(NewEvents) :
                /\ \A i \in 1..k : GraftPruneRpc(NewEvents[i])
                /\ \A i \in (k + 1)..Len(NewEvents) : FlushRpc(NewEvents[i])
                /\ \A i, j \in (k + 1)..Len(NewEvents) :
                      i # j => NewEvents[i].peer_id # NewEvents[j].peer_id
                /\ \A p \in DOMAIN control_pool :
                      \E i \in (k + 1)..Len(NewEvents) : NewEvents[i].peer_id = p]_vars

\* a heartbeat has flushed the GRAFT of a subscribe and the PRUNE of the
\* unsubscribe that followed as one RPC for p1, and the GRAFT alone for p2
C28_Witness ==
    /\ control_pool = EmptyMap
    /\ \E i, j \in 1..Len(events) :
          /\ events[i] = SendEvent("p1", GossipsubRpc(<<>>, <<>>, <<Graft("t1"), Prune("t1")>>))
          /\ events[j].kind = "SendEvent"
          /\ events[j].peer_id = "p2"
          /\ events[j].event.control_msgs # <<>>
          /\ events[j].event.control_msgs[1].type \in {"Graft", "Prune"}

\* the IHAVEs among the control actions of an event
IHavesOf(e) ==
    IF e.kind = "SendEvent"
    THEN {c \in SeqRange(e.event.control_msgs) : c.type = "IHave"}
    ELSE {}

\* C29: every IHAVE for a topic t that a heartbeat produces goes to a
\* gossipsub peer that is subscribed to t and is outside mesh[t] (fanout[t]
\* for a fanout topic) as the heartbeat's repair left it, and it reaches the
\* event queue in that heartbeat, advertising the cache as it was before
\* the shift.
C29_GossipOutsideMesh ==
    [][PollHeartbeat =>
          /\ \A p \in DOMAIN control_pool' :
                \A c \in SeqRange(control_pool'[p]) : c.type # "IHave"
          /\ \A i \in 1..Len(NewEvents) :
                \A c \in IHavesOf(NewEvents[i]) :
                    LET p == NewEvents[i].peer_id
                        t == c.topic_hash
                    IN /\ p \in DOMAIN peer_topics
                       /\ peer_topics[p].node_type = "Gossipsub"
                       /\ t \in peer_topics[p].topics
                       /\ t \in (DOMAIN mesh') \cup (DOMAIN fanout')
                       /\ t \in DOMAIN mesh' => ~VecContains(mesh'[t], p)
                       /\ t \in DOMAIN fanout' => ~VecContains(fanout'[t], p)
                       /\ c.message_ids = MCacheGossipIds(mcache, t)
                       /\ c.message_ids # {}]_vars

\* a heartbeat has advertised the published message to p2, which is
\* subscribed to t1 and outside mesh[t1]
C29_Witness ==
    /\ "t1" \in DOMAIN mesh
    /\ VecContains(mesh["t1"], "p1")
    /\ ~VecContains(mesh["t1"], "p2")
    /\ "p2" \in DOMAIN peer_topics
    /\ "t1" \in peer_topics["p2"].topics
    /\ control_pool = EmptyMap
    /\ \E i \in 1..Len(events) :
          /\ events[i].kind = "SendEvent"
          /\ events[i].peer_id = "p2"
          /\ IHavesOf(events[i]) = {IHave("t1", {OwnId})}

Max(a, b) == IF a > b THEN a ELSE b

\* the least integer not below n / d
CeilDiv(n, d) == (n + d - 1) \div d

\* the peers a step sent an IHAVE for topic t
IHavePeers(t) ==
    {p \in Peers : \E i \in 1..Len(NewEvents) :
        /\ NewEvents[i].kind = "SendEvent"
        /\ NewEvents[i].peer_id = p
        /\ \E c \in IHavesOf(NewEvents[i]) : c.topic_hash = t}

\* the gossipsub peers of t outside its mesh or fanout after a step
EligiblePeers(t) ==
    {p \in topic_peers[t].gossipsub :
        /\ t \in DOMAIN mesh' => ~VecContains(mesh'[t], p)
        /\ t \in DOMAIN fanout' => ~VecContains(fanout'[t], p)}

\* C30: in a heartbeat, a topic of the mesh or fanout with an advertised
\* message id has its IHAVE sent to min(E, max(gossip_lazy,
\* ceil(gossip_factor * E))) peers, E being the number of eligible
\* gossipsub peers outside the mesh or fanout.
C30_GossipPeerCount ==
    [][PollHeartbeat =>
          \A t \in (DOMAIN mesh') \cup (DOMAIN fanout') :
              MCacheGossipIds(mcache, t) # {} =>
                  LET E == Cardinality(EligiblePeers(t))
                  IN Cardinality(IHavePeers(t))
                        = Min(E, Max(config.gossip_lazy,
                                     CeilDiv(GossipFactor.num * E, GossipFactor.den)))]_vars

C32_UnknownPeerIgnored ==
    [][(last_rx'.source \in Peers /\ last_rx'.source \notin DOMAIN peer_topics) =>
          /\ peer_topics' = peer_topics
          /\ topic_peers' = topic_peers
          /\ events' = events]_vars

\* subscription updates from the unconnected p1 were handled while p2 is
\* connected and subscribed to t1: p1 has no record and is in no peer list
C32_Witness ==
    /\ last_rx.source = "p1"
    /\ "p1" \notin DOMAIN peer_topics
    /\ "p2" \in DOMAIN peer_topics
    /\ peer_topics["p2"].topics = {"t1"}
    /\ topic_peers["t1"].gossipsub = {"p2"}
    /\ \A t \in Topics : "p1" \notin topic_peers[t].gossipsub \cup topic_peers[t].floodsub

\* C33: whatever mesh_n, mesh_n_low and mesh_n_high are, a heartbeat
\* completes: no subtraction of peer counts goes below zero and no
\* expectation fails.
C33_HeartbeatNeverUnderflows ==
    /\ \A t \in DOMAIN mesh :
          \A x \in MeshSubtractions(Cur, config, t) : x[1] >= x[2]
    /\ heartbeat(Cur, config, now) # {}

\* a reported peer is strictly closer to the target than every peer seen
StrictlyCloser(q, closer_peers) ==
    \E n \in SeqRange(closer_peers) : \A m \in DOMAIN q.closest_peers : n < m

\* a reported peer is at least as close as every peer seen
AsClose(q, closer_peers) ==
    \E n \in SeqRange(closer_peers) : \A m \in DOMAIN q.closest_peers : n <= m

\* the delivery counted as progress
MadeProgress(q, after) ==
    after.progress = [kind |-> "Iterating", no_progress |-> 0]

\* the delivery counted as no progress
MadeNoProgress(q, after) ==
    IF q.progress.kind = "Iterating"
    THEN \/ after.progress = [kind |-> "Iterating", no_progress |-> q.progress.no_progress + 1]
         \/ /\ after.progress.kind = "Stalled"
            /\ q.progress.no_progress + 1 >= q.config.parallelism * q.iterations
    ELSE after.progress.kind = "Stalled"

\* C34: on_success for a waiting peer counts as progress whenever any of
\* the reported peers, at whatever position of the list, is closer to the
\* target than every peer seen so far, or the query held fewer than
\* num_results peers; otherwise no_progress is incremented.  (Stated in its
\* weakest reading: progress is demanded for a strictly closer peer, and for
\* a query short of peers only when the list brings a new one; no progress
\* is demanded only when no reported peer is even as close as the closest.)
C34_ProgressWhateverPosition ==
    [][( /\ query_call'.kind = "on_success"
         /\ 0 \in DOMAIN active_queries
         /\ TheQuery.progress.kind # "Finished"
         /\ query_call'.node_id \in DOMAIN TheQuery.closest_peers
         /\ TheQuery.closest_peers[query_call'.node_id].state = "Waiting" ) =>
          LET q == TheQuery
              after == active_queries'[0]
              closer_peers == query_call'.closer_peers
              fewer == Cardinality(DOMAIN q.closest_peers) < q.config.num_results
              brings_new == SeqRange(closer_peers) \ DOMAIN q.closest_peers # {}
          IN /\ (StrictlyCloser(q, closer_peers) \/ (fewer /\ brings_new))
                    => MadeProgress(q, after)
             /\ (~AsClose(q, closer_peers) /\ ~fewer) => MadeNoProgress(q, after)]_vars

\* peers of the query in state Waiting
WaitingPeers(q) == {n \in DOMAIN q.closest_peers : q.closest_peers[n].state = "Waiting"}

\* what C40 says of a state
NumWaitingCounts ==
    0 \in DOMAIN active_queries =>
        /\ TheQuery.num_waiting = Cardinality(WaitingPeers(TheQuery))
        /\ ~query_call.stalled => TheQuery.num_waiting <= TheQuery.config.parallelism
        /\ TheQuery.num_waiting
              <= Max(TheQuery.config.parallelism, TheQuery.config.num_results)

\* C40: after any sequence of next, on_success and on_failure, num_waiting
\* is the number of Waiting peers, it stays within parallelism while the
\* query has never been Stalled and within max(parallelism, num_results)
\* always; once next has returned Finished every later next returns
\* Finished and on_success and on_failure change nothing.
C40_QueryCounters ==
    /\ []NumWaitingCounts
    /\ [][query_call.finished =>
              /\ query_call'.kind = "next" => query_call'.state = "Finished"
              /\ active_queries' = active_queries]_vars

\* a query that had stalled and then finished while a peer was still awaited
\* is reported a success
C40_Witness ==
    /\ 0 \in DOMAIN active_queries
    /\ query_call.kind = "on_success"
    /\ query_call.finished
    /\ query_call.stalled
    /\ TheQuery.num_waiting >= 1
    /\ query_call.node_id \in WaitingPeers(TheQuery)

\* ---------------------------------------------------------------------
\* fanout and subscription
\* ---------------------------------------------------------------------
\* the local node subscribes to, leaves and publishes to topics while peers
\* subscribe and time passes
NextKeys ==
    \/ \E t \in OneTopic : Subscribe(t)
    \/ \E t \in OneTopic : Unsubscribe(t)
    \/ InjectConnected("p1")
    \/ \E rpc \in SubRpcs : InjectNodeEvent("p1", rpc, FALSE)
    \/ Publish(Topics, Seqno(0))
    \/ PollEvent
    \/ PollHeartbeat
    \/ Tick

SpecKeys == InitMesh /\ [][NextKeys]_vars

\* C35: in every reachable state fanout and fanout_last_pub have the same
\* keys, and no topic is a key of both mesh and fanout.
C35_FanoutKeys ==
    /\ DOMAIN fanout = DOMAIN fanout_last_pub
    /\ (DOMAIN mesh) \cap (DOMAIN fanout) = {}

\* a publish to a subscribed and an unsubscribed topic has just built the
\* fanout of the unsubscribed one
C35_Witness ==
    /\ DOMAIN mesh = {"t1"}
    /\ DOMAIN fanout = {"t2"}
    /\ DOMAIN fanout_last_pub = {"t2"}
    /\ \E i \in 1..Len(events) :
          /\ events[i].kind = "SendEvent"
          /\ \E m \in SeqRange(events[i].event.messages) : m.topics = {"t1", "t2"}

\* C36: mesh[t] behaves as a set: each peer occurs at most once in mesh[t],
\* and a GRAFT for t from a peer already in mesh[t] leaves mesh[t] and its
\* length unchanged.
C36_MeshIsASet ==
    \A t \in DOMAIN mesh, p \in Peers :
        /\ mesh[t][p] <= 1
        /\ (p \in DOMAIN peer_topics /\ VecContains(mesh[t], p)) =>
              LET s1 == inject_node_event(Cur, p, GossipsubRpc(<<>>, <<>>, <<Graft(t)>>), {})
              IN /\ s1.mesh[t] = mesh[t]
                 /\ VecLen(s1.mesh[t]) = VecLen(mesh[t])

\* members of mesh[t] in the state m of the mesh table
MeshSize(m, t) == Cardinality(VecPeers(m[t]))

\* C37: a heartbeat that finds mesh_n_low <= |mesh[t]| <= mesh_n_high
\* leaves mesh[t] unchanged and sends neither GRAFT nor PRUNE for t; and in
\* no heartbeat does the same peer get both a GRAFT and a PRUNE for the
\* same topic.  (GRAFTs and PRUNEs the control pool held before the
\* heartbeat are not counted as sent by it.)
C37_HeartbeatLeavesMeshInRange ==
    [][PollHeartbeat =>
          /\ \A t \in DOMAIN mesh :
                ( /\ config.mesh_n_low <= MeshSize(mesh, t)
                  /\ MeshSize(mesh, t) <= config.mesh_n_high )
                => /\ t \in DOMAIN mesh'
                   /\ VecPeers(mesh'[t]) = VecPeers(mesh[t])
                   /\ \A p \in Peers :
                         /\ SentByHeartbeat(p, Graft(t)) <= 0
                         /\ SentByHeartbeat(p, Prune(t)) <= 0
          /\ \A t \in Topics, p \in Peers :
                ~(SentByHeartbeat(p, Graft(t)) > 0 /\ SentByHeartbeat(p, Prune(t)) > 0)]_vars

\* C38: after inject_disconnected(p) the control pool holds no buffered
\* actions for p, and a heartbeat enqueues no control RPC addressed to a
\* peer that is not connected.
C38_DisconnectClearsPool ==
    [][\A p \in Peers :
          /\ (p \in DOMAIN peer_topics /\ InjectDisconnected(p))
                => PoolOf(control_pool', p) = <<>>
          /\ (p \notin DOMAIN peer_topics /\ PollHeartbeat)
                => \A i \in 1..Len(NewEvents) :
                      (NewEvents[i].kind = "SendEvent" /\ NewEvents[i].peer_id = p)
                          => NewEvents[i].event.control_msgs = <<>>]_vars

\* C39: TimedSessions yields a session as expired only after the timeout
\* most recently set for that node (by insert, insert_at or update_timeout)
\* has elapsed: inserting a session again for a node that has one does not
\* let the earlier timeout expire the new session, and after remove(node) no
\* expiry is yielded for that node.
C39_ExpiryAfterLastTimeout ==
    [][session_call'.kind = "Ok" =>
          /\ session_call'.node_id \in DOMAIN session_call.deadlines
          /\ session_call.deadlines[session_call'.node_id] <= now]_vars

====
